---- MODULE Spec2Model ----
(***************************************************************************)
(* Model of the go-arena library: the monotonic (bump) arena and the       *)
(* arena-backed byte buffer, the concurrent arena and the typed helpers.    *)
(*                                                                          *)
(* Memory is a small flat address space.  Address 0 is the nil pointer.     *)
(* A buffer's base address is whatever the host allocator returns when the *)
(* buffer is materialized: any address whose byte range does not overlap a *)
(* buffer that is currently materialized.                                   *)
(***************************************************************************)
EXTENDS Integers, Sequences, FiniteSets, TLC

\* ---- bounds of the model ----
MaxAddr == 8          \* addresses are 1..MaxAddr
MaxSize == 2          \* requested sizes are 0..MaxSize
MaxAlign == 4         \* requested alignments are 1..MaxAlign
MaxMinBufferSize == 2 \* WithMinBufferSize(0..MaxMinBufferSize)
MaxInitialBuffers == 1 \* WithInitialBufferCount(0..MaxInitialBuffers)
MaxBuffers == 2       \* no new buffer is created beyond this many
MaxAllocs == 2        \* allocations between two Reset/Release calls
MaxDirty == 1         \* nonzero bytes in memory at any time
MaxByte == 1          \* byte values are 0..MaxByte
MaxWrite == 2         \* bytes passed to one Write/WriteString call
MaxWritten == 3       \* bytes written to the byte buffer in total
MaxRead == 2          \* len(p) of a Read, n of a Next
NumThreads == 2       \* goroutines sharing one concurrent arena
MaxCalls == 2         \* calls each goroutine makes on the concurrent arena
MaxSlack == 1         \* spare capacity the runtime may add when append grows
MaxGrowCap == 320     \* capacity of a slice handed to growSlice
MaxCap == 2           \* capacity asked of AllocateSlice, length built by SliceAppend
MaxReads == 2         \* Read calls a reader answers before it ends
MaxKey == 1           \* pool keys are 0..MaxKey
MaxItems == 2         \* pool items ever created
MaxPoolCalls == 3     \* Acquire/Release/ReleaseMany calls per goroutine
MaxUse == 2           \* bytes the holder of an item allocates at once
MaxLoad == 2          \* bytes in use in the arena of a pool item
MaxMany == 2          \* items passed to one ReleaseMany
MaxSamples == 53      \* samples recorded for the key of the statistics run
MaxPeak == 2          \* peaks recorded in the statistics run are 0..MaxPeak
ReadBufferSize == 1   \* len(b.readBuf), 4 KiB scaled to the address space

\* ---- program constants ----
NilPtr == 0
ZeroBase == 8  \* address of a zero-size block, 8-aligned
growThreshold == 256
SizeofByte == 1
AlignofByte == 1
SampleWindow == 50              \* samples after which a statistic collapses
DefaultArenaSize == 1048576     \* 1024 * 1024: arena size for a key without statistic

Addr == 1..MaxAddr
Sizes == 0..MaxSize
Aligns == 1..MaxAlign

VARIABLES
  buffers,            \* monotonicArena.buffers: sequence of [ptr, offset, size]
  peak,               \* monotonicArena.peak
  minBufferSize,      \* monotonicArena.minBufferSize
  initialBufferCount, \* monotonicArena.initialBufferCount
  mem,                \* contents of memory, one byte per address
  panicked,           \* the program aborted with a panic
  allocs,             \* history: allocations since the last Reset/Release
  maxLen,             \* history: largest Len observed after any Alloc
  last,               \* history: the last arena operation and its result
  buf,                \* Buffer.buf: [data, cap], data being buf[0:len(buf)]
  off,                \* Buffer.off
  written,            \* history: every byte written to the Buffer, in order
  consumed,           \* history: number of bytes handed out by reads
  ret,                \* history: the last Buffer operation and its result
  readBuf,            \* Buffer.readBuf: its length, 0 while it is nil
  arena,              \* the Arena given to the Buffer and the typed helpers
  sl,                 \* the slice the caller of the typed helpers holds: [T, s]
  hret,               \* history: the last typed-helper call and its result
  inner,              \* concurrentArena.a: "monotonic" or "nil"
  mtx,                \* concurrentArena.mtx: the goroutine holding it, 0 if free
  pc,                 \* where each goroutine is in its call
  call,               \* the call each goroutine is making: [op, size]
  snap,               \* the fields of the wrapped arena a goroutine has read
  cret,               \* history: what each goroutine's last call returned
  calls,              \* history: number of calls each goroutine has made
  requested,          \* history: the sizes passed to concurrent Alloc calls
  cleared,            \* history: Reset or Release ran on the concurrent arena
  items,              \* the PoolItems ever created: [Arena, Key, collected]
  pool,               \* Pool.pool: weak pointers, each the index of an item
  sizes,              \* Pool.sizes: [count, totalBytes] per key
  mu,                 \* Pool.mu: the goroutine holding it, 0 if free
  ppc,                \* where each goroutine is in its call on the pool
  pcall,              \* the locals of the call each goroutine makes on the pool
  held,               \* the items each goroutine has acquired and not released
  acq,                \* history: per item, the key and the largest Len of its
                      \* current acquisition
  released,           \* history: the items in the order of their last release
  samples,            \* history: per key, the number of samples recorded and
                      \* the smallest and the largest of them
  pcalls              \* history: number of pool calls each goroutine has made

arenaVars == <<buffers, peak, minBufferSize, initialBufferCount, mem, panicked,
               allocs, maxLen, last>>
bufferVars == <<buf, off, written, consumed, ret, readBuf, arena>>
sliceVars == <<sl, hret>>
concVars == <<inner, mtx, pc, call, snap, cret, calls, requested, cleared>>
poolVars == <<items, pool, sizes, mu, ppc, pcall, held, acq, released, samples,
              pcalls>>
vars == <<arenaVars, bufferVars, concVars, sliceVars, poolVars>>

Max(a, b) == IF a >= b THEN a ELSE b
Min(a, b) == IF a <= b THEN a ELSE b

RECURSIVE SumSeq(_)
SumSeq(s) == IF s = <<>> THEN 0 ELSE Head(s) + SumSeq(Tail(s))

\* ---- host allocator ----

\* [lo, lo+n) and [lo2, lo2+n2) share a byte
Overlap(lo, n, lo2, n2) == n > 0 /\ n2 > 0 /\ lo < lo2 + n2 /\ lo2 < lo + n

\* The alignment the Go allocator gives a pointer-free block of n bytes: a
\* block under 16 bytes is packed by the tiny allocator at the largest power
\* of two, up to 8, that divides its size; larger blocks are 8-aligned or more.
hostAlign(n) ==
  IF n >= 16 \/ n % 8 = 0 THEN 8
  ELSE IF n % 4 = 0 THEN 4
  ELSE IF n % 2 = 0 THEN 2
  ELSE 1

\* make([]byte, n): the base addresses the host may return.  A zero-size
\* block is at the fixed address of runtime.zerobase; any other block lies in
\* the address space and overlaps no materialized buffer of the arena.
makeBytes(bufs, n) ==
  IF n = 0 THEN {ZeroBase}
  ELSE { b \in Addr :
           /\ b % hostAlign(n) = 0
           /\ b + n <= MaxAddr + 1
           /\ \A i \in 1..Len(bufs) :
                bufs[i].ptr # NilPtr => ~Overlap(b, n, bufs[i].ptr, bufs[i].size) }

\* clear n bytes at lo
memclr(m, lo, n) == [a \in Addr |-> IF lo <= a /\ a < lo + n THEN 0 ELSE m[a]]

\* ---- monotonicBuffer ----

newMonotonicBuffer(size) == [ptr |-> NilPtr, offset |-> 0, size |-> size]

availableBytes(s) == s.size - s.offset

\* for alignedPtr := p; alignedPtr%alignment != 0; alignedPtr++ { alignOffset++ }
RECURSIVE alignLoop(_, _)
alignLoop(alignedPtr, alignment) ==
  IF alignedPtr % alignment # 0 THEN 1 + alignLoop(alignedPtr + 1, alignment) ELSE 0

\* mutants of alloc
\* the bump leaves the padding out: s.offset += size
alloc_padNotCounted(s, size, alignment, m, base) ==
  LET fresh == s.ptr = NilPtr
      s1 == IF fresh THEN [s EXCEPT !.ptr = base] ELSE s
      m1 == IF fresh THEN memclr(m, base, s.size) ELSE m
      alignOffset == alignLoop(s1.ptr + s1.offset, alignment)
      allocSize == size + alignOffset
      ptr == s1.ptr + s1.offset + alignOffset
  IN IF availableBytes(s1) < allocSize
     THEN [buf |-> s1, mem |-> m1, ptr |-> NilPtr, ok |-> FALSE]
     ELSE [buf |-> [s1 EXCEPT !.offset = s1.offset + size],
           mem |-> memclr(m1, ptr, size), ptr |-> ptr, ok |-> TRUE]

\* the offset is aligned instead of the address
alloc_alignsOffset(s, size, alignment, m, base) ==
  LET fresh == s.ptr = NilPtr
      s1 == IF fresh THEN [s EXCEPT !.ptr = base] ELSE s
      m1 == IF fresh THEN memclr(m, base, s.size) ELSE m
      alignOffset == alignLoop(s1.offset, alignment)
      allocSize == size + alignOffset
      ptr == s1.ptr + s1.offset + alignOffset
  IN IF availableBytes(s1) < allocSize
     THEN [buf |-> s1, mem |-> m1, ptr |-> NilPtr, ok |-> FALSE]
     ELSE [buf |-> [s1 EXCEPT !.offset = s1.offset + allocSize],
           mem |-> memclr(m1, ptr, size), ptr |-> ptr, ok |-> TRUE]

\* the returned bytes are not cleared
alloc_noClear(s, size, alignment, m, base) ==
  LET fresh == s.ptr = NilPtr
      s1 == IF fresh THEN [s EXCEPT !.ptr = base] ELSE s
      m1 == IF fresh THEN memclr(m, base, s.size) ELSE m
      alignOffset == alignLoop(s1.ptr + s1.offset, alignment)
      allocSize == size + alignOffset
      ptr == s1.ptr + s1.offset + alignOffset
  IN IF availableBytes(s1) < allocSize
     THEN [buf |-> s1, mem |-> m1, ptr |-> NilPtr, ok |-> FALSE]
     ELSE [buf |-> [s1 EXCEPT !.offset = s1.offset + allocSize],
           mem |-> m1, ptr |-> ptr, ok |-> TRUE]

\* a buffer that is too small still loses the padding
alloc_failKeepsPad(s, size, alignment, m, base) ==
  LET fresh == s.ptr = NilPtr
      s1 == IF fresh THEN [s EXCEPT !.ptr = base] ELSE s
      m1 == IF fresh THEN memclr(m, base, s.size) ELSE m
      alignOffset == alignLoop(s1.ptr + s1.offset, alignment)
      allocSize == size + alignOffset
      ptr == s1.ptr + s1.offset + alignOffset
  IN IF availableBytes(s1) < allocSize
     THEN [buf |-> [s1 EXCEPT !.offset = Min(s1.size, s1.offset + alignOffset)],
           mem |-> m1, ptr |-> NilPtr, ok |-> FALSE]
     ELSE [buf |-> [s1 EXCEPT !.offset = s1.offset + allocSize],
           mem |-> memclr(m1, ptr, size), ptr |-> ptr, ok |-> TRUE]

\* monotonicBuffer.alloc; base is the address make returns if the buffer has
\* to be materialized.
alloc(s, size, alignment, m, base) ==
  LET fresh == s.ptr = NilPtr
      s1 == IF fresh THEN [s EXCEPT !.ptr = base] ELSE s
      m1 == IF fresh THEN memclr(m, base, s.size) ELSE m
      alignOffset == alignLoop(s1.ptr + s1.offset, alignment)
      allocSize == size + alignOffset
      ptr == s1.ptr + s1.offset + alignOffset
  IN IF availableBytes(s1) < allocSize
     THEN [buf |-> s1, mem |-> m1, ptr |-> NilPtr, ok |-> FALSE]
     ELSE [buf |-> [s1 EXCEPT !.offset = s1.offset + allocSize],
           mem |-> memclr(m1, ptr, size), ptr |-> ptr, ok |-> TRUE]

\* mutant of reset: the base address is dropped as well
reset_dropsPtr(s) == [s EXCEPT !.offset = 0, !.ptr = NilPtr]

reset(s) == IF s.offset = 0 THEN s ELSE [s EXCEPT !.offset = 0]

\* mutant of release: the base address is kept
release_keepsPtr(s) == [s EXCEPT !.offset = 0]

release(s) == [s EXCEPT !.offset = 0, !.ptr = NilPtr]

\* ---- monotonicArena ----

NewMonotonicArena(minSize, count) ==
  [i \in 1..count |-> newMonotonicBuffer(minSize)]

len(bufs) == SumSeq([i \in 1..Len(bufs) |-> bufs[i].offset])

Cap(bufs) == SumSeq([i \in 1..Len(bufs) |-> bufs[i].size])

\* if currentLen > a.peak { a.peak = currentLen }
updatePeak(pk, bufs) == IF len(bufs) > pk THEN len(bufs) ELSE pk

\* mutant of allocNewBuffer: the new buffer is sized without the padding
allocNewBuffer_sizeOnly(bufs, pk, minSize, m, size, alignment) ==
  LET requiredSize == size
      newBufferSize == IF requiredSize < minSize THEN minSize ELSE requiredSize
      newBuffer == newMonotonicBuffer(newBufferSize)
  IN { LET r == alloc(newBuffer, size, alignment, m, b)
           nb == Append(bufs, r.buf)
       IN IF ~r.ok
          THEN [buffers |-> nb, peak |-> pk, mem |-> r.mem, ptr |-> NilPtr,
                panicked |-> TRUE, idx |-> Len(nb)]
          ELSE [buffers |-> nb, peak |-> updatePeak(pk, nb), mem |-> r.mem,
                ptr |-> r.ptr, panicked |-> FALSE, idx |-> Len(nb)]
       : b \in makeBytes(bufs, newBufferSize) }

\* mutant of allocNewBuffer: the peak is not updated when a buffer is added
allocNewBuffer_noPeak(bufs, pk, minSize, m, size, alignment) ==
  LET currentLen == len(bufs)
      alignOffset == IF currentLen > 0 THEN alignLoop(currentLen, alignment) ELSE 0
      requiredSize == size + alignOffset
      newBufferSize == IF requiredSize < minSize THEN minSize ELSE requiredSize
      newBuffer == newMonotonicBuffer(newBufferSize)
  IN { LET r == alloc(newBuffer, size, alignment, m, b)
           nb == Append(bufs, r.buf)
       IN [buffers |-> nb, peak |-> pk, mem |-> r.mem,
           ptr |-> IF r.ok THEN r.ptr ELSE NilPtr, panicked |-> ~r.ok, idx |-> Len(nb)]
       : b \in makeBytes(bufs, newBufferSize) }

\* the tail of Alloc: no existing buffer had room, a new one is created
allocNewBuffer(bufs, pk, minSize, m, size, alignment) ==
  LET currentLen == len(bufs)
      alignOffset == IF currentLen > 0 THEN alignLoop(currentLen, alignment) ELSE 0
      requiredSize == size + alignOffset
      newBufferSize == IF requiredSize < minSize THEN minSize ELSE requiredSize
      newBuffer == newMonotonicBuffer(newBufferSize)
  IN { LET r == alloc(newBuffer, size, alignment, m, b)
           nb == Append(bufs, r.buf)
       IN IF ~r.ok
          THEN [buffers |-> nb, peak |-> pk, mem |-> r.mem, ptr |-> NilPtr,
                panicked |-> TRUE, idx |-> Len(nb)]
          ELSE [buffers |-> nb, peak |-> updatePeak(pk, nb), mem |-> r.mem,
                ptr |-> r.ptr, panicked |-> FALSE, idx |-> Len(nb)]
       : b \in makeBytes(bufs, newBufferSize) }

\* monotonicArena.Alloc from buffer i on: the set of outcomes, one per choice
\* of base address for the buffers that get materialized on the way.
RECURSIVE allocFrom(_, _, _, _, _, _, _)
allocFrom(i, bufs, pk, minSize, m, size, alignment) ==
  IF i > Len(bufs)
  THEN allocNewBuffer(bufs, pk, minSize, m, size, alignment)
  ELSE LET bases == IF bufs[i].ptr = NilPtr
                    THEN makeBytes(bufs, bufs[i].size) ELSE {bufs[i].ptr}
       IN UNION { LET r == alloc(bufs[i], size, alignment, m, b)
                      nb == [bufs EXCEPT ![i] = r.buf]
                  IN IF r.ok
                     THEN {[buffers |-> nb, peak |-> updatePeak(pk, nb),
                            mem |-> r.mem, ptr |-> r.ptr, panicked |-> FALSE,
                            idx |-> i]}
                     ELSE allocFrom(i + 1, nb, pk, minSize, r.mem, size, alignment)
                  : b \in bases }

Alloc(bufs, pk, minSize, m, size, alignment) ==
  allocFrom(1, bufs, pk, minSize, m, size, alignment)

Reset(bufs) == [i \in 1..Len(bufs) |-> reset(bufs[i])]

\* the bytes of a released buffer go back to the host; mem keeps only the
\* bytes of materialized buffers, so they read as 0 from then on
RECURSIVE releaseMem(_, _, _)
releaseMem(m, bufs, i) ==
  IF i > Len(bufs) THEN m
  ELSE releaseMem(IF bufs[i].ptr = NilPtr THEN m
                  ELSE memclr(m, bufs[i].ptr, bufs[i].size), bufs, i + 1)

Release(bufs) == [i \in 1..Len(bufs) |-> release(bufs[i])]

Peak(pk) == pk

\* ---- actions of the arena ----

NoOp == [op |-> "New", size |-> 0, alignment |-> 1, ptr |-> NilPtr, pad |-> 0,
         idx |-> 0, dirty |-> FALSE, grew |-> FALSE]

NoRet == [op |-> "New", n |-> 0, data |-> <<>>, err |-> "nil", arg |-> <<>>]

NilSlice == [data |-> <<>>, cap |-> 0]

\* a type T is [size, align]: unsafe.Sizeof and unsafe.Alignof of a T
ByteT == [size |-> SizeofByte, align |-> AlignofByte]

\* struct{}, uint8, uint16, uint32
Types == {[size |-> 0, align |-> 1]} \cup
         {[size |-> n, align |-> n] : n \in {k \in {1, 2, 4} : k <= MaxAlign}}

NoHret == [op |-> "none", T |-> ByteT, length |-> 0, capacity |-> 0,
           s |-> NilSlice, data |-> <<>>, val |-> 0, inArena |-> FALSE,
           called |-> FALSE]

\* the arena a caller passes on (one of kinds) and the nil slice it starts with
InitCaller(kinds, types) ==
  /\ arena \in kinds
  /\ arena # "monotonic" => (minBufferSize = 0 /\ initialBufferCount = 0)
  /\ sl \in {[T |-> T, s |-> NilSlice] : T \in types}
  /\ hret = NoHret

Threads == 1..NumThreads

NoCall == [op |-> "none", size |-> 0]

NoSnap == [buffers |-> <<>>, peak |-> 0]

NoCret == [op |-> "none", val |-> 0]

\* NewConcurrentArena(a) before any goroutine has called it
InitConcurrent(a) ==
  /\ inner = a
  /\ mtx = 0
  /\ pc = [t \in Threads |-> "idle"]
  /\ call = [t \in Threads |-> NoCall]
  /\ snap = [t \in Threads |-> NoSnap]
  /\ cret = [t \in Threads |-> NoCret]
  /\ calls = [t \in Threads |-> 0]
  /\ requested = <<>>
  /\ cleared = FALSE

\* NewMonotonicArena(WithMinBufferSize(..), WithInitialBufferCount(..)) and
\* NewArenaBuffer(arena)
\* ---- the arena pool (pool.go) ----
\* A PoolItem is [Arena, Key, collected]: Arena is the monotonic arena of the
\* item, [buffers, peak, minBufferSize]; collected says the garbage collector
\* has reclaimed the item, so that a weak pointer to it yields nil.  Items are
\* named by their index in items; p.pool holds such indices.  p.sizes maps
\* every key to [count, totalBytes], count = 0 standing for a missing entry.

Keys == 0..MaxKey

NoStat == [count |-> 0, totalBytes |-> 0]

NoPcall == [op |-> "none", key |-> 0, item |-> 0, list |-> <<>>, peak |-> 0,
            lastIdx |-> 0, wp |-> 0, pops |-> 0, pool0 |-> <<>>, created |-> FALSE,
            stat0 |-> NoStat]

NoAcq == [key |-> 0, cur |-> 0]

\* NewArenaPool(), with no goroutine inside a call
NewArenaPool ==
  /\ items = <<>>
  /\ acq = <<>>
  /\ pool = <<>>
  /\ released = <<>>
  /\ mu = 0
  /\ ppc = [t \in Threads |-> "idle"]
  /\ pcall = [t \in Threads |-> NoPcall]
  /\ held = [t \in Threads |-> {}]
  /\ pcalls = [t \in Threads |-> 0]

NoSamples == [n |-> 0, min |-> 0, max |-> 0]

\* a pool nobody uses
NoPool ==
  NewArenaPool /\ sizes = [k \in Keys |-> NoStat] /\ samples = [k \in Keys |-> NoSamples]

InitArena ==
  /\ minBufferSize \in 0..MaxMinBufferSize
  /\ initialBufferCount \in 0..MaxInitialBuffers
  /\ buffers = NewMonotonicArena(minBufferSize, initialBufferCount)
  /\ peak = 0
  /\ mem = [a \in Addr |-> 0]
  /\ panicked = FALSE
  /\ allocs = <<>>
  /\ maxLen = 0
  /\ last = NoOp
  /\ buf = NilSlice
  /\ off = 0
  /\ written = <<>>
  /\ consumed = 0
  /\ ret = NoRet
  /\ readBuf = 0

Init ==
  InitArena /\ InitConcurrent("monotonic") /\ InitCaller({"monotonic"}, {ByteT})
    /\ NoPool

\* the offset buffer i had before the call (0 for a buffer the call created)
oldOffset(i) == IF i <= Len(buffers) THEN buffers[i].offset ELSE 0

\* some byte of [lo, lo+n) is nonzero
Dirty(m, lo, n) == \E a \in Addr : lo <= a /\ a < lo + n /\ m[a] # 0

\* the arena after a.Alloc(size, alignment) ended with outcome r
AllocStep(r, size, alignment) ==
  /\ buffers' = r.buffers
  /\ peak' = r.peak
  /\ mem' = r.mem
  /\ panicked' = r.panicked
  /\ LET pad == r.ptr - (r.buffers[r.idx].ptr + oldOffset(r.idx))
     IN /\ allocs' = IF r.panicked THEN allocs
                     ELSE Append(allocs, [ptr |-> r.ptr, size |-> size,
                                          pad |-> pad, alignment |-> alignment,
                                          idx |-> r.idx])
        /\ last' = [op |-> "Alloc", size |-> size, alignment |-> alignment,
                    ptr |-> r.ptr, pad |-> IF r.panicked THEN 0 ELSE pad,
                    idx |-> r.idx,
                    dirty |-> ~r.panicked /\ Dirty(mem, r.ptr, size),
                    grew |-> Len(r.buffers) > Len(buffers)]
  /\ maxLen' = IF r.panicked THEN maxLen ELSE Max(maxLen, len(r.buffers))
  /\ UNCHANGED <<minBufferSize, initialBufferCount>>

CallAlloc ==
  /\ ~panicked
  /\ Len(allocs) < MaxAllocs
  /\ \E size \in Sizes, alignment \in Aligns :
       \E r \in Alloc(buffers, peak, minBufferSize, mem, size, alignment) :
         /\ Len(r.buffers) <= MaxBuffers
         /\ AllocStep(r, size, alignment)
  /\ UNCHANGED <<bufferVars, concVars, sliceVars, poolVars>>

CallReset ==
  /\ ~panicked
  /\ buffers' = Reset(buffers)
  /\ allocs' = <<>>
  /\ last' = [NoOp EXCEPT !.op = "Reset"]
  /\ UNCHANGED <<peak, minBufferSize, initialBufferCount, mem, panicked, maxLen>>
  /\ UNCHANGED <<bufferVars, concVars, sliceVars, poolVars>>

CallRelease ==
  /\ ~panicked
  /\ buffers' = Release(buffers)
  /\ mem' = releaseMem(mem, buffers, 1)
  /\ allocs' = <<>>
  /\ last' = [NoOp EXCEPT !.op = "Release"]
  /\ UNCHANGED <<peak, minBufferSize, initialBufferCount, panicked, maxLen>>
  /\ UNCHANGED <<bufferVars, concVars, sliceVars, poolVars>>

\* the caller writes a nonzero byte into one of its live allocations
CallStore ==
  /\ ~panicked
  /\ Cardinality({a \in Addr : mem[a] # 0}) < MaxDirty
  /\ \E k \in 1..Len(allocs) : \E a \in Addr :
       /\ allocs[k].ptr <= a /\ a < allocs[k].ptr + allocs[k].size
       /\ mem[a] = 0
       /\ mem' = [mem EXCEPT ![a] = 1]
  /\ last' = [NoOp EXCEPT !.op = "Store"]
  /\ UNCHANGED <<buffers, peak, minBufferSize, initialBufferCount, panicked,
                 allocs, maxLen>>
  /\ UNCHANGED <<bufferVars, concVars, sliceVars, poolVars>>

Next == CallAlloc \/ CallReset \/ CallRelease \/ CallStore

Spec == Init /\ [][Next]_vars

\* ---- concurrentArena ----
\* Every method is: a.mtx.Lock(); defer a.mtx.Unlock(); if a.a == nil { return
\* zero }; return a.a.Method().  A goroutine goes idle -> locked -> loaded ->
\* unlock -> idle; between locked and loaded it has read the wrapped arena's
\* fields, and the method of the wrapped arena then works on what it read.

ConcOps == {"Alloc", "Reset", "Release", "Len", "Cap", "Peak"}

\* if a.a == nil
nilGuard_missing(a) == FALSE
nilGuard(a) == a = "nil"

\* a.mtx.Lock() without waiting for the holder
Lock_noExclusion(t) ==
  /\ mtx' = t
Lock(t) ==
  /\ mtx = 0
  /\ mtx' = t

\* mutant of Unlock: the return on the nil path skips the unlock
Unlock_notOnNilPath(t) == mtx' = IF inner = "nil" THEN mtx ELSE 0

\* the deferred a.mtx.Unlock()
Unlock(t) == mtx' = 0

\* a goroutine calls a method and acquires the mutex
ConcLock(t) ==
  /\ ~panicked
  /\ pc[t] = "idle"
  /\ calls[t] < MaxCalls
  /\ Lock(t)
  /\ \E op \in ConcOps, size \in Sizes :
       /\ op # "Alloc" => size = 0
       /\ call' = [call EXCEPT ![t] = [op |-> op, size |-> size]]
       /\ requested' = IF op = "Alloc" THEN Append(requested, size) ELSE requested
  /\ pc' = [pc EXCEPT ![t] = "locked"]
  /\ calls' = [calls EXCEPT ![t] = calls[t] + 1]
  /\ UNCHANGED <<arenaVars, bufferVars, sliceVars, poolVars, inner, snap, cret, cleared>>

\* the nil check; with a wrapped arena the goroutine enters its method, which
\* reads the arena's fields (calling a method on a nil interface panics)
ConcEnter(t) ==
  /\ ~panicked
  /\ pc[t] = "locked"
  /\ IF nilGuard(inner)
     THEN /\ cret' = [cret EXCEPT ![t] = [op |-> call[t].op, val |-> 0]]
          /\ pc' = [pc EXCEPT ![t] = "unlock"]
          /\ UNCHANGED <<snap, panicked>>
     ELSE IF inner = "nil"
     THEN /\ panicked' = TRUE
          /\ pc' = [pc EXCEPT ![t] = "unlock"]
          /\ UNCHANGED <<snap, cret>>
     ELSE /\ snap' = [snap EXCEPT ![t] = [buffers |-> buffers, peak |-> peak]]
          /\ pc' = [pc EXCEPT ![t] = "loaded"]
          /\ UNCHANGED <<cret, panicked>>
  /\ UNCHANGED <<buffers, peak, minBufferSize, initialBufferCount, mem, allocs,
                 maxLen, last>>
  /\ UNCHANGED <<bufferVars, sliceVars, poolVars, inner, mtx, call, calls, requested, cleared>>

\* the goroutine's method returns val; the mutex is still held
concReturn(t, val) ==
  /\ cret' = [cret EXCEPT ![t] = [op |-> call[t].op, val |-> val]]
  /\ pc' = [pc EXCEPT ![t] = "unlock"]
  /\ snap' = [snap EXCEPT ![t] = NoSnap]
  /\ UNCHANGED <<bufferVars, sliceVars, poolVars, inner, mtx, call, calls, requested>>

\* return a.a.Alloc(size, alignment); the goroutines allocate with alignment 1
ConcAlloc(t) ==
  /\ ~panicked
  /\ pc[t] = "loaded" /\ call[t].op = "Alloc"
  /\ \E r \in Alloc(snap[t].buffers, snap[t].peak, minBufferSize, mem,
                    call[t].size, AlignofByte) :
       /\ AllocStep(r, call[t].size, AlignofByte)
       /\ concReturn(t, r.ptr)
  /\ UNCHANGED cleared

\* a.a.Reset()
ConcReset(t) ==
  /\ ~panicked
  /\ pc[t] = "loaded" /\ call[t].op = "Reset"
  /\ buffers' = Reset(snap[t].buffers)
  /\ allocs' = <<>>
  /\ last' = [NoOp EXCEPT !.op = "Reset"]
  /\ cleared' = TRUE
  /\ concReturn(t, 0)
  /\ UNCHANGED <<peak, minBufferSize, initialBufferCount, mem, panicked, maxLen>>

\* a.a.Release()
ConcRelease(t) ==
  /\ ~panicked
  /\ pc[t] = "loaded" /\ call[t].op = "Release"
  /\ buffers' = Release(snap[t].buffers)
  /\ mem' = releaseMem(mem, snap[t].buffers, 1)
  /\ allocs' = <<>>
  /\ last' = [NoOp EXCEPT !.op = "Release"]
  /\ cleared' = TRUE
  /\ concReturn(t, 0)
  /\ UNCHANGED <<peak, minBufferSize, initialBufferCount, panicked, maxLen>>

\* return a.a.Len()
ConcLen(t) ==
  /\ ~panicked
  /\ pc[t] = "loaded" /\ call[t].op = "Len"
  /\ concReturn(t, len(snap[t].buffers))
  /\ UNCHANGED <<arenaVars, cleared>>

\* return a.a.Cap()
ConcCap(t) ==
  /\ ~panicked
  /\ pc[t] = "loaded" /\ call[t].op = "Cap"
  /\ concReturn(t, Cap(snap[t].buffers))
  /\ UNCHANGED <<arenaVars, cleared>>

\* return a.a.Peak()
ConcPeak(t) ==
  /\ ~panicked
  /\ pc[t] = "loaded" /\ call[t].op = "Peak"
  /\ concReturn(t, Peak(snap[t].peak))
  /\ UNCHANGED <<arenaVars, cleared>>

\* the deferred Unlock runs and the call returns to the goroutine
ConcUnlock(t) ==
  /\ pc[t] = "unlock"
  /\ Unlock(t)
  /\ pc' = [pc EXCEPT ![t] = "idle"]
  /\ UNCHANGED <<arenaVars, bufferVars, sliceVars, poolVars, inner, call, snap, cret, calls,
                 requested, cleared>>

\* NewConcurrentArena(NewMonotonicArena(..)) or NewConcurrentArena(nil)
InitConc ==
  /\ InitArena /\ InitCaller({"monotonic"}, {ByteT}) /\ NoPool
  /\ \E a \in {"monotonic", "nil"} : InitConcurrent(a)

NextConc ==
  \E t \in Threads :
    \/ ConcLock(t)
    \/ ConcEnter(t)
    \/ ConcAlloc(t)
    \/ ConcReset(t)
    \/ ConcRelease(t)
    \/ ConcLen(t)
    \/ ConcCap(t)
    \/ ConcPeak(t)
    \/ ConcUnlock(t)

SpecConc == InitConc /\ [][NextConc]_vars

\* the steps of goroutine t other than the inner Alloc
ConcRun(t) ==
  \/ ConcLock(t)
  \/ ConcEnter(t)
  \/ ConcReset(t)
  \/ ConcRelease(t)
  \/ ConcLen(t)
  \/ ConcCap(t)
  \/ ConcPeak(t)
  \/ ConcUnlock(t)

\* make([]byte, n) has a block for every buffer the inner Alloc of goroutine
\* t would materialize or create
hostServes(t) ==
  Alloc(snap[t].buffers, snap[t].peak, minBufferSize, mem, call[t].size,
        AlignofByte) # {}

\* goroutine t can run its inner Alloc: ConcAlloc(t) is enabled
AllocPending(t) ==
  ~panicked /\ pc[t] = "loaded" /\ call[t].op = "Alloc" /\ hostServes(t)

\* a goroutine waits in make([]byte, n) with the address space used up
HostExhausted ==
  \E t \in Threads : pc[t] = "loaded" /\ call[t].op = "Alloc" /\ ~hostServes(t)

\* NewConcurrentArena(nil), or NewConcurrentArena of one monotonic arena
InitConcFair ==
  /\ InitConc
  /\ inner = "monotonic" =>
       (minBufferSize = MaxMinBufferSize /\ initialBufferCount = MaxInitialBuffers)

\* The scheduler runs every goroutine that can take a step: a goroutine inside
\* a call is runnable, and one with calls left to make is at a.mtx.Lock(),
\* runnable whenever the mutex is free.  For the inner Alloc the weak fairness
\* condition is written out: the goroutine does not stay for ever where
\* ConcAlloc is enabled.
SpecConcFair ==
  /\ InitConcFair /\ [][NextConc]_vars
  /\ \A t \in Threads : WF_vars(ConcRun(t)) /\ []<>~AllocPending(t)

\* ---- the arena handed to the typed helpers and to the byte buffer ----
\* The Arena argument is nil, the monotonic arena of this model, or
\* NewConcurrentArena(nil), a non-nil arena whose Alloc returns nil.

ArenaKinds == {"monotonic", "nil", "concurrentNil"}

\* the arena argument with the state (and the history) behind it
TheArena ==
  [kind |-> arena, buffers |-> buffers, peak |-> peak, mem |-> mem,
   panicked |-> panicked, allocs |-> allocs, maxLen |-> maxLen, last |-> last]

\* a.Alloc(size, alignment) through the interface: the possible outcomes
arenaAlloc(A, size, alignment) ==
  IF A.kind = "monotonic"
  THEN Alloc(A.buffers, A.peak, minBufferSize, A.mem, size, alignment)
  ELSE {[buffers |-> A.buffers, peak |-> A.peak, mem |-> A.mem, ptr |-> NilPtr,
         panicked |-> FALSE, idx |-> 0]}

\* the arena after its Alloc(size, alignment) ended with outcome r
afterAlloc(A, r, size, alignment) ==
  IF A.kind # "monotonic" THEN A
  ELSE LET old == IF r.idx <= Len(A.buffers) THEN A.buffers[r.idx].offset ELSE 0
           pad == r.ptr - (r.buffers[r.idx].ptr + old)
       IN [kind |-> A.kind, buffers |-> r.buffers, peak |-> r.peak,
           mem |-> r.mem, panicked |-> r.panicked,
           allocs |-> IF r.panicked THEN A.allocs
                      ELSE Append(A.allocs, [ptr |-> r.ptr, size |-> size,
                                             pad |-> pad, alignment |-> alignment,
                                             idx |-> r.idx]),
           maxLen |-> IF r.panicked THEN A.maxLen ELSE Max(A.maxLen, len(r.buffers)),
           last |-> [op |-> "Alloc", size |-> size, alignment |-> alignment,
                     ptr |-> r.ptr, pad |-> IF r.panicked THEN 0 ELSE pad,
                     idx |-> r.idx,
                     dirty |-> ~r.panicked /\ Dirty(A.mem, r.ptr, size),
                     grew |-> Len(r.buffers) > Len(A.buffers)]]

\* the arena variables take the values of A
SetArena(A) ==
  /\ buffers' = A.buffers
  /\ peak' = A.peak
  /\ mem' = A.mem
  /\ panicked' = A.panicked
  /\ allocs' = A.allocs
  /\ maxLen' = A.maxLen
  /\ last' = A.last
  /\ UNCHANGED <<minBufferSize, initialBufferCount>>

\* ---- typed helpers (slice.go) ----
\* A type T is [size, align] (unsafe.Sizeof, unsafe.Alignof).  A slice is
\* [data, cap]: data holds its len elements, cap is its capacity.  An element
\* is kept as one number, 0 for the zero value.

\* the value of type T stored at address p: zero iff all its bytes are zero
elemAt(m, p, T) ==
  IF \E a \in Addr : p <= a /\ a < p + T.size /\ m[a] # 0 THEN 1 ELSE 0

\* make([]T, length, capacity), new(T): zeroed memory of the host
makeSlice(length, capacity) == [data |-> [i \in 1..length |-> 0], cap |-> capacity]

\* unsafe.Slice(ptr, capacity)[:length] over memory m
sliceAt(m, ptr, T, length, capacity) ==
  [data |-> [i \in 1..length |-> elemAt(m, ptr + (i - 1) * T.size, T)],
   cap |-> capacity]

\* the built-in append(s, data...): in place while the capacity suffices,
\* otherwise a new array whose capacity the runtime chooses
append(s, data) ==
  LET need == Len(s.data) + Len(data)
  IN IF need <= s.cap THEN {[data |-> s.data \o data, cap |-> s.cap]}
     ELSE {[data |-> s.data \o data, cap |-> c] : c \in need..(need + MaxSlack)}

\* Allocate[T](a): the possible results; the value comes from the arena when
\* Alloc returned a pointer, from new(T) otherwise
Allocate(A, T) ==
  IF A.kind = "nil"
  THEN {[val |-> 0, inArena |-> FALSE, ptr |-> NilPtr, A |-> A, called |-> FALSE]}
  ELSE { LET A2 == afterAlloc(A, r, T.size, T.align)
         IN IF r.ptr # NilPtr
            THEN [val |-> elemAt(r.mem, r.ptr, T), inArena |-> TRUE, ptr |-> r.ptr,
                  A |-> A2, called |-> TRUE]
            ELSE [val |-> 0, inArena |-> FALSE, ptr |-> NilPtr, A |-> A2,
                  called |-> TRUE]
         : r \in arenaAlloc(A, T.size, T.align) }

\* mutant of AllocateSlice: the nil result of Alloc is used as the pointer
AllocateSlice_noFallback(A, T, length, capacity) ==
  IF A.kind = "nil"
  THEN {[s |-> makeSlice(length, capacity), inArena |-> FALSE, A |-> A,
         called |-> FALSE, size |-> 0]}
  ELSE { LET bufSize == T.size * capacity
             A2 == afterAlloc(A, r, bufSize, T.align)
         IN IF r.ptr # NilPtr
            THEN [s |-> sliceAt(r.mem, r.ptr, T, length, capacity),
                  inArena |-> TRUE, A |-> A2, called |-> TRUE, size |-> bufSize]
            ELSE [s |-> NilSlice, inArena |-> FALSE,
                  A |-> [A2 EXCEPT !.panicked = capacity > 0], called |-> TRUE,
                  size |-> bufSize]
         : r \in arenaAlloc(A, T.size * capacity, T.align) }

\* mutant of AllocateSlice: the request is sized by the length, not the capacity
AllocateSlice_sizedByLen(A, T, length, capacity) ==
  IF A.kind = "nil"
  THEN {[s |-> makeSlice(length, capacity), inArena |-> FALSE, A |-> A,
         called |-> FALSE, size |-> 0]}
  ELSE { LET bufSize == T.size * length
             A2 == afterAlloc(A, r, bufSize, T.align)
         IN IF r.ptr # NilPtr
            THEN [s |-> sliceAt(r.mem, r.ptr, T, length, capacity),
                  inArena |-> TRUE, A |-> A2, called |-> TRUE, size |-> bufSize]
            ELSE [s |-> makeSlice(length, capacity), inArena |-> FALSE, A |-> A2,
                  called |-> TRUE, size |-> bufSize]
         : r \in arenaAlloc(A, T.size * length, T.align) }

\* AllocateSlice[T](a, length, capacity): the possible results, with the
\* arena afterwards (called = FALSE when no Alloc was made)
AllocateSlice(A, T, length, capacity) ==
  IF A.kind = "nil"
  THEN {[s |-> makeSlice(length, capacity), inArena |-> FALSE, A |-> A,
         called |-> FALSE, size |-> 0]}
  ELSE { LET bufSize == T.size * capacity
             A2 == afterAlloc(A, r, bufSize, T.align)
         IN IF r.ptr # NilPtr
            THEN [s |-> sliceAt(r.mem, r.ptr, T, length, capacity),
                  inArena |-> TRUE, A |-> A2, called |-> TRUE, size |-> bufSize]
            ELSE [s |-> makeSlice(length, capacity), inArena |-> FALSE, A |-> A2,
                  called |-> TRUE, size |-> bufSize]
         : r \in arenaAlloc(A, T.size * capacity, T.align) }

\* mutant of growLoop: the capacity is doubled above the threshold as well
RECURSIVE growLoop_alwaysDoubles(_, _)
growLoop_alwaysDoubles(newCap, newLen) ==
  IF newLen > newCap
  THEN growLoop_alwaysDoubles(newCap * 2, newLen)
  ELSE newCap

\* the loop of growSlice: for newLen > newCap { ... }
RECURSIVE growLoop(_, _)
growLoop(newCap, newLen) ==
  IF newLen > newCap
  THEN growLoop(IF newCap < growThreshold THEN newCap * 2
                ELSE newCap + newCap \div 4, newLen)
  ELSE newCap

\* newCap as growSlice computes it for a slice s and dataLen new elements
growCap(s, dataLen) ==
  IF s.cap > 0 THEN growLoop(s.cap, Len(s.data) + dataLen) ELSE dataLen

\* mutant of copy: nothing is copied
copy_nothing(dst, src) == dst

\* copy(dst, src) on sequences: the first min(len) elements of dst are replaced
copy(dst, src) ==
  [i \in 1..Len(dst) |-> IF i <= Len(src) THEN src[i] ELSE dst[i]]

\* growSlice(a, s, dataLen) with a non-nil arena
growSlice(A, T, s, dataLen) ==
  LET newCap == growCap(s, dataLen)
  IN IF newCap = s.cap
     THEN {[s |-> s, inArena |-> FALSE, A |-> A, called |-> FALSE, size |-> 0]}
     ELSE { [g EXCEPT !.s = [g.s EXCEPT !.data = copy(g.s.data, s.data)]]
            : g \in AllocateSlice(A, T, Len(s.data), newCap) }

\* SliceAppend(a, s, data...)
SliceAppend(A, T, s, data) ==
  IF A.kind = "nil"
  THEN {[s |-> s2, inArena |-> FALSE, A |-> A, called |-> FALSE, size |-> 0]
        : s2 \in append(s, data)}
  ELSE UNION { {[g EXCEPT !.s = s2] : s2 \in append(g.s, data)}
               : g \in growSlice(A, T, s, Len(data)) }

\* all sequences over S of length lo..hi
SeqsOver(S, lo, hi) == UNION { [1..n -> S] : n \in lo..hi }

\* p := Allocate[T](a)
CallAllocate ==
  /\ ~panicked
  /\ Len(allocs) < MaxAllocs
  /\ \E T \in Types : \E g \in Allocate(TheArena, T) :
       /\ Len(g.A.buffers) <= MaxBuffers
       /\ SetArena(g.A)
       /\ hret' = [NoHret EXCEPT !.op = "Allocate", !.T = T, !.val = g.val,
                                 !.inArena = g.inArena, !.called = g.called]
  /\ UNCHANGED <<sl, bufferVars, concVars, poolVars>>

\* sl = AllocateSlice[T](a, length, capacity)
CallAllocateSlice ==
  /\ ~panicked
  /\ Len(allocs) < MaxAllocs
  /\ \E T \in Types, capacity \in 0..MaxCap :
       \E length \in 0..capacity : \E g \in AllocateSlice(TheArena, T, length, capacity) :
         /\ Len(g.A.buffers) <= MaxBuffers
         /\ SetArena(g.A)
         /\ sl' = IF g.A.panicked THEN sl ELSE [T |-> T, s |-> g.s]
         /\ hret' = [NoHret EXCEPT !.op = "AllocateSlice", !.T = T,
                                   !.length = length, !.capacity = capacity,
                                   !.inArena = g.inArena, !.called = g.called]
  /\ UNCHANGED <<bufferVars, concVars, poolVars>>

\* sl = SliceAppend(a, sl, data...)
CallSliceAppend ==
  /\ ~panicked
  /\ Len(allocs) < MaxAllocs
  /\ \E data \in SeqsOver(0..MaxByte, 0, MaxWrite) :
       /\ Len(sl.s.data) + Len(data) <= MaxCap
       /\ \E g \in SliceAppend(TheArena, sl.T, sl.s, data) :
            /\ Len(g.A.buffers) <= MaxBuffers
            /\ SetArena(g.A)
            /\ sl' = IF g.A.panicked THEN sl ELSE [sl EXCEPT !.s = g.s]
            /\ hret' = [NoHret EXCEPT !.op = "SliceAppend", !.T = sl.T,
                                      !.s = sl.s, !.data = data,
                                      !.inArena = g.inArena, !.called = g.called]
  /\ UNCHANGED <<bufferVars, concVars, poolVars>>

NextSlice == CallAllocate \/ CallAllocateSlice \/ CallSliceAppend

InitSlice ==
  /\ InitArena /\ InitConcurrent("monotonic") /\ InitCaller(ArenaKinds, Types)
  /\ NoPool
  /\ arena = "monotonic" =>
       (minBufferSize = MaxMinBufferSize /\ initialBufferCount = MaxInitialBuffers)

\* the typed helpers on an arena whose memory the caller also writes and resets
NextTyped == NextSlice \/ CallStore \/ CallReset

SpecSlice == InitSlice /\ [][NextTyped]_vars

\* ---- growSlice on capacities around growThreshold ----

\* struct{}: slices of any capacity take no bytes of the arena
ZeroT == [size |-> 0, align |-> 1]

\* cap(s), len(s) and len(data) of the calls
GrowCaps ==
  {0, 1, 2, 3, growThreshold \div 2, growThreshold - 1, growThreshold,
   growThreshold + 1, MaxGrowCap}
GrowLens(K) == {0, K \div 2, K}
GrowData == {0, 1, 2, growThreshold \div 4, growThreshold}

\* sl = growSlice(a, sl, dataLen)
CallGrowSlice ==
  /\ ~panicked
  /\ Len(allocs) < MaxAllocs
  /\ sl.s.cap <= MaxGrowCap
  /\ \E dataLen \in GrowData : \E g \in growSlice(TheArena, sl.T, sl.s, dataLen) :
       /\ Len(g.A.buffers) <= MaxBuffers
       /\ SetArena(g.A)
       /\ sl' = [sl EXCEPT !.s = g.s]
       /\ hret' = [NoHret EXCEPT !.op = "growSlice", !.T = sl.T, !.s = sl.s,
                                 !.length = dataLen, !.capacity = g.s.cap,
                                 !.inArena = g.inArena, !.called = g.called]
  /\ UNCHANGED <<bufferVars, concVars, poolVars>>

\* a slice of zero-size elements and a non-nil arena: the monotonic arena or
\* one whose Alloc returns nil
InitGrow ==
  /\ InitArena /\ InitConcurrent("monotonic") /\ NoPool
  /\ arena \in {"monotonic", "concurrentNil"}
  /\ minBufferSize = (IF arena = "monotonic" THEN MaxMinBufferSize ELSE 0)
  /\ initialBufferCount = (IF arena = "monotonic" THEN MaxInitialBuffers ELSE 0)
  /\ sl \in UNION { {[T |-> ZeroT, s |-> makeSlice(N, K)] : N \in GrowLens(K)}
                    : K \in GrowCaps }
  /\ hret = NoHret

NextGrow == CallGrowSlice

SpecGrow == InitGrow /\ [][NextGrow]_vars

\* ---- Buffer (byte buffer) ----

Byte == 0..MaxByte

\* all byte sequences of length lo..hi
SeqsOf(lo, hi) == UNION { [1..n -> Byte] : n \in lo..hi }

\* copy(b.buf, b.buf[n:b.off]): the bytes n..off-1 move to the front
shift(data, n, o) ==
  [i \in 1..Len(data) |-> IF i <= o - n THEN data[i + n] ELSE data[i]]

Bytes == IF off = 0 THEN <<>> ELSE SubSeq(buf.data, 1, off)

String == SubSeq(buf.data, 1, off)

BufferLen == off

BufferCap == buf.cap

\* the Buffer after it changed nothing but what the arguments say
setBuffer(A, b, o, w, c, rb) ==
  /\ SetArena(A)
  /\ buf' = b
  /\ off' = o
  /\ written' = w
  /\ consumed' = c
  /\ readBuf' = rb
  /\ UNCHANGED <<arena, concVars, sliceVars, poolVars>>

\* what a call returned (n, data, err) and what it was given (arg)
returns(op, n, data, err, arg) ==
  ret' = [op |-> op, n |-> n, data |-> data, err |-> err, arg |-> arg]

\* no room in the model for more bytes
Full(k) == Max(Len(written), Len(buf.data)) + k > MaxWritten

\* what a write was given: p, with the state it was called in
writeArg(p) == [p |-> p, wasEmpty |-> off = 0]

\* b.buf = SliceAppend(b.arena, b.buf, p...); b.off = len(b.buf)
appendAndAdvance(p, op) ==
  /\ \E g \in SliceAppend(TheArena, ByteT, buf, p) :
       IF g.A.panicked
       THEN setBuffer(g.A, buf, off, written, consumed, readBuf)
       ELSE setBuffer(g.A, g.s, Len(g.s.data), written \o p, consumed, readBuf)
  /\ returns(op, Len(p), <<>>, "nil", writeArg(p))

\* a call that changes nothing and returns (n, data, err)
returnOnly(op, n, data, err, arg) ==
  /\ returns(op, n, data, err, arg)
  /\ UNCHANGED <<arenaVars, buf, off, written, consumed, readBuf, arena,
                 concVars, sliceVars, poolVars>>

\* drop the first n unread bytes and return them
consume(op, n, err, arg) ==
  /\ buf' = [buf EXCEPT !.data = shift(buf.data, n, off)]
  /\ off' = off - n
  /\ consumed' = consumed + n
  /\ returns(op, n, SubSeq(buf.data, 1, n), err, arg)
  /\ UNCHANGED <<arenaVars, written, readBuf, arena, concVars, sliceVars, poolVars>>

Write ==
  /\ ~panicked
  /\ \E p \in SeqsOf(0, MaxWrite) :
       /\ ~Full(Len(p))
       /\ IF Len(p) = 0
          THEN returnOnly("Write", 0, <<>>, "nil", writeArg(p))
          ELSE appendAndAdvance(p, "Write")

WriteByte ==
  /\ ~panicked
  /\ ~Full(1)
  /\ \E c \in Byte : appendAndAdvance(<<c>>, "WriteByte")

WriteString ==
  /\ ~panicked
  /\ \E str \in SeqsOf(0, MaxWrite) :
       /\ ~Full(Len(str))
       /\ IF Len(str) = 0
          THEN returnOnly("WriteString", 0, <<>>, "nil", writeArg(str))
          ELSE appendAndAdvance(str, "WriteString")

\* WriteTo(w), w.Write accepting m of the bytes it is offered and returning werr
WriteTo_dropsAll ==
  /\ ~panicked
  /\ IF off = 0
     THEN returnOnly("WriteTo", 0, <<>>, "nil",
                     [called |-> FALSE, offered |-> <<>>, m |-> 0, werr |-> "nil"])
     ELSE \E m \in 0..off, werr \in {"nil", "short write"} :
            LET arg == [called |-> TRUE, offered |-> SubSeq(buf.data, 1, off),
                        m |-> m, werr |-> werr]
            IN IF m > 0 THEN consume("WriteTo", off, werr, arg)
               ELSE returnOnly("WriteTo", 0, <<>>, werr, arg)
WriteTo ==
  /\ ~panicked
  /\ IF off = 0
     THEN returnOnly("WriteTo", 0, <<>>, "nil",
                     [called |-> FALSE, offered |-> <<>>, m |-> 0, werr |-> "nil"])
     ELSE \E m \in 0..off, werr \in {"nil", "short write"} :
            LET arg == [called |-> TRUE, offered |-> SubSeq(buf.data, 1, off),
                        m |-> m, werr |-> werr]
            IN IF m > 0 THEN consume("WriteTo", m, werr, arg)
               ELSE returnOnly("WriteTo", 0, <<>>, werr, arg)

\* if n < len(p) { err = io.EOF }
readErr_atEnd(n, lenP, o) == IF n = o THEN "EOF" ELSE "nil"
readErr(n, lenP, o) == IF n < lenP THEN "EOF" ELSE "nil"

\* Read(p) with len(p) = lenP
Read ==
  /\ ~panicked
  /\ \E lenP \in 0..MaxRead :
       IF off = 0 THEN returnOnly("Read", 0, <<>>, "EOF", [lenP |-> lenP])
       ELSE LET n == Min(lenP, off)
            IN consume("Read", n, readErr(n, lenP, off), [lenP |-> lenP])

ReadByte ==
  /\ ~panicked
  /\ IF off = 0 THEN returnOnly("ReadByte", 0, <<>>, "EOF", [lenP |-> 1])
     ELSE consume("ReadByte", 1, "nil", [lenP |-> 1])

\* b.buf = b.buf[:0]
resetOf(b) == [b EXCEPT !.data = <<>>]

\* Reset()
BufferReset_keepsLen ==
  /\ ~panicked
  /\ setBuffer(TheArena, buf, 0, <<>>, 0, readBuf)
  /\ returns("Reset", 0, <<>>, "nil", [cap |-> buf.cap])
BufferReset ==
  /\ ~panicked
  /\ setBuffer(TheArena, resetOf(buf), 0, <<>>, 0, readBuf)
  /\ returns("Reset", 0, <<>>, "nil", [cap |-> buf.cap])

\* if n < 0 || n > b.off
truncateRange_offByOne(n, o) == n < 0 \/ n >= o
truncateRange(n, o) == n < 0 \/ n > o

\* Truncate(n)
Truncate ==
  /\ ~panicked
  /\ \E n \in -1..(MaxRead + 1) :
       /\ IF truncateRange(n, off)
          THEN setBuffer([TheArena EXCEPT !.panicked = TRUE], buf, off, written,
                         consumed, readBuf)
          ELSE setBuffer(TheArena, buf, n,
                         SubSeq(written, 1, Min(consumed + n, Len(written))),
                         consumed, readBuf)
       /\ returns("Truncate", 0, <<>>, "nil", [n |-> n])

\* Next(n): the result is a slice of its own (make), not a view of b.buf
BufferNext_noAdvance ==
  /\ ~panicked
  /\ \E n \in -1..MaxRead :
       LET arg == [n |-> n, fresh |-> TRUE]
       IN IF n <= 0 THEN returnOnly("Next", 0, <<>>, "nil", arg)
          ELSE LET m == IF n > off THEN off ELSE n
               IN returnOnly("Next", m, SubSeq(buf.data, 1, m), "nil", arg)
BufferNext ==
  /\ ~panicked
  /\ \E n \in -1..MaxRead :
       LET arg == [n |-> n, fresh |-> TRUE]
       IN IF n <= 0 THEN returnOnly("Next", 0, <<>>, "nil", arg)
          ELSE LET m == IF n > off THEN off ELSE n
               IN IF m = 0 THEN returnOnly("Next", 0, <<>>, "nil", arg)
                  ELSE consume("Next", m, "nil", arg)

\* a reader: the (data, err) its Read calls return, the last one with the
\* error that ends it; each delivery fits the intermediate buffer
Readers ==
  { r \in SeqsOver([data : SeqsOf(0, ReadBufferSize), err : {"nil", "EOF", "broken"}],
                   1, MaxReads) :
      \A i \in 1..Len(r) : (r[i].err = "nil") <=> (i < Len(r)) }

\* everything a reader delivers
RECURSIVE delivered(_)
delivered(r) == IF r = <<>> THEN <<>> ELSE Head(r).data \o delivered(Tail(r))

\* if er == io.EOF { break } ... return n, er
readFromErr_eof(er) == er
readFromErr(er) == IF er = "EOF" THEN "nil" ELSE er

\* the loop of ReadFrom over the reads of r, from X = [A, buf, off, n]
RECURSIVE readLoop(_, _)
readLoop(X, r) ==
  IF X.A.panicked THEN {[A |-> X.A, buf |-> X.buf, off |-> X.off, n |-> X.n, err |-> "nil"]}
  ELSE LET nr == Len(Head(r).data)
           er == Head(r).err
           wrote == IF nr > 0
                    THEN { IF g.A.panicked THEN [X EXCEPT !.A = g.A]
                           ELSE [A |-> g.A, buf |-> g.s, off |-> Len(g.s.data),
                                 n |-> X.n + nr]
                           : g \in SliceAppend(X.A, ByteT, X.buf, Head(r).data) }
                    ELSE {X}
       IN IF er = "nil"
          THEN UNION { readLoop(Y, Tail(r)) : Y \in wrote }
          ELSE { [A |-> Y.A, buf |-> Y.buf, off |-> Y.off, n |-> Y.n,
                  err |-> readFromErr(er)] : Y \in wrote }

\* allocateReadBuffer: AllocateSlice[byte](b.arena, readBufferSize, readBufferSize)
allocateReadBuffer(A) ==
  IF readBuf # 0 THEN {A}
  ELSE { g.A : g \in AllocateSlice(A, ByteT, ReadBufferSize, ReadBufferSize) }

\* ReadFrom(r)
ReadFrom ==
  /\ ~panicked
  /\ \E r \in Readers :
       /\ ~Full(Len(delivered(r)))
       /\ \E A0 \in allocateReadBuffer(TheArena) :
            \E Y \in readLoop([A |-> A0, buf |-> buf, off |-> off, n |-> 0], r) :
              /\ setBuffer(Y.A, Y.buf, Y.off,
                           IF Y.A.panicked THEN written ELSE written \o delivered(r),
                           consumed, ReadBufferSize)
              /\ returns("ReadFrom", Y.n, <<>>, Y.err,
                         [delivered |-> delivered(r), er |-> r[Len(r)].err])

NextBuf ==
  \/ Write
  \/ WriteByte
  \/ WriteString
  \/ WriteTo
  \/ Read
  \/ ReadByte
  \/ BufferReset
  \/ Truncate
  \/ BufferNext
  \/ ReadFrom

\* NewArenaBuffer(a) for any of the arenas; the monotonic one is
\* NewMonotonicArena(WithMinBufferSize(MaxMinBufferSize),
\*                   WithInitialBufferCount(MaxInitialBuffers))
InitBuf ==
  /\ InitArena /\ InitConcurrent("monotonic") /\ InitCaller(ArenaKinds, {ByteT})
  /\ NoPool
  /\ arena = "monotonic" =>
       (minBufferSize = MaxMinBufferSize /\ initialBufferCount = MaxInitialBuffers)

SpecBuf == InitBuf /\ [][NextBuf]_vars

\* the typed helpers and the byte buffer on an arena that gives no memory;
\* they share nothing but that arena, so a run uses the ones or the other
InitNil ==
  InitArena /\ InitConcurrent("monotonic")
    /\ InitCaller({"nil", "concurrentNil"}, {ByteT}) /\ NoPool

NextNil == (ret = NoRet /\ NextSlice) \/ (hret = NoHret /\ NextBuf)

SpecNil == InitNil /\ [][NextNil]_vars

\* mutant of getArenaSize: the total is not divided by the count
getArenaSize_total(sz, id) ==
  IF sz[id].count > 0 THEN sz[id].totalBytes ELSE DefaultArenaSize

getArenaSize(sz, id) ==
  IF sz[id].count > 0 THEN sz[id].totalBytes \div sz[id].count
  ELSE DefaultArenaSize

\* &PoolItem{Arena: NewMonotonicArena(WithMinBufferSize(size)), Key: key}
newPoolItem(size, key) ==
  [Arena |-> [buffers |-> NewMonotonicArena(size, 1), peak |-> 0,
              minBufferSize |-> size],
   Key |-> key, collected |-> FALSE]

\* what is left of an item the garbage collector has reclaimed
Collected ==
  [Arena |-> [buffers |-> <<>>, peak |-> 0, minBufferSize |-> 0], Key |-> 0,
   collected |-> TRUE]

\* the first buffer from i on with room for n bytes, 0 if there is none
RECURSIVE firstFit(_, _, _)
firstFit(bufs, i, n) ==
  IF i > Len(bufs) THEN 0
  ELSE IF availableBytes(bufs[i]) >= n THEN i
  ELSE firstFit(bufs, i + 1, n)

\* item.Arena.Alloc(n, 1) on the arena ar of an item, addresses left out:
\* with alignment 1 there is no padding
allocBytes(ar, n) ==
  LET i == firstFit(ar.buffers, 1, n)
      newBufferSize == IF n < ar.minBufferSize THEN ar.minBufferSize ELSE n
      nb == IF i # 0 THEN [ar.buffers EXCEPT ![i].offset = @ + n]
            ELSE Append(ar.buffers,
                        [newMonotonicBuffer(newBufferSize) EXCEPT !.offset = n])
  IN [ar EXCEPT !.buffers = nb, !.peak = updatePeak(ar.peak, nb)]

\* mutant of p.mu.Lock(): the lock is taken though another goroutine holds it
PoolLock_noExclusion(t) ==
  mu' = t

\* p.mu.Lock() by goroutine t: blocks while another goroutine holds the lock
PoolLock(t) ==
  /\ mu = 0
  /\ mu' = t

\* v := p.Acquire(key), up to the lock
PoolAcquire(t) ==
  /\ ppc[t] = "idle"
  /\ pcalls[t] < MaxPoolCalls
  /\ PoolLock(t)
  /\ \E key \in Keys :
       pcall' = [pcall EXCEPT ![t] = [NoPcall EXCEPT !.op = "Acquire",
                                                     !.key = key, !.pool0 = pool]]
  /\ ppc' = [ppc EXCEPT ![t] = "acq_loop"]
  /\ pcalls' = [pcalls EXCEPT ![t] = @ + 1]
  /\ UNCHANGED <<items, acq, pool, sizes, released, samples, held>>
  /\ UNCHANGED <<arenaVars, bufferVars, concVars, sliceVars>>

\* for len(p.pool) > 0 { lastIdx := len(p.pool) - 1; wp := p.pool[lastIdx]
AcquireLoop(t) ==
  /\ ppc[t] = "acq_loop"
  /\ Len(pool) > 0
  /\ pcall' = [pcall EXCEPT ![t].lastIdx = Len(pool) - 1, ![t].wp = pool[Len(pool)]]
  /\ ppc' = [ppc EXCEPT ![t] = "acq_pop"]
  /\ UNCHANGED <<items, acq, pool, sizes, released, samples, held, mu, pcalls>>
  /\ UNCHANGED <<arenaVars, bufferVars, concVars, sliceVars>>

\* mutant of AcquirePop: the reference stays in the pool
acquirePop_keepsRef(p, lastIdx) == p

\* p.pool = p.pool[:lastIdx]
acquirePop(p, lastIdx) == SubSeq(p, 1, Min(lastIdx, Len(p)))

\* p.pool = p.pool[:lastIdx]; v := wp.Value(); if v != nil { v.Key = key; return v }
AcquirePop(t) ==
  /\ ppc[t] = "acq_pop"
  /\ pool' = acquirePop(pool, pcall[t].lastIdx)
  /\ LET v == pcall[t].wp
     IN IF ~items[v].collected
        THEN /\ items' = [items EXCEPT ![v].Key = pcall[t].key]
             /\ acq' = [acq EXCEPT ![v] = [key |-> pcall[t].key, cur |-> 0]]
             /\ held' = [held EXCEPT ![t] = @ \cup {v}]
             /\ pcall' = [pcall EXCEPT ![t].item = v, ![t].pops = @ + 1]
             /\ ppc' = [ppc EXCEPT ![t] = "unlock"]
        ELSE /\ pcall' = [pcall EXCEPT ![t].pops = @ + 1]
             /\ ppc' = [ppc EXCEPT ![t] = "acq_loop"]
             /\ UNCHANGED <<items, acq, held>>
  /\ UNCHANGED <<sizes, released, samples, mu, pcalls>>
  /\ UNCHANGED <<arenaVars, bufferVars, concVars, sliceVars>>

\* the pool is empty: size := WithMinBufferSize(p.getArenaSize(key));
\* return &PoolItem{Arena: NewMonotonicArena(size), Key: key}
AcquireNew(t) ==
  /\ ppc[t] = "acq_loop"
  /\ Len(pool) = 0
  /\ Len(items) < MaxItems
  /\ items' = Append(items, newPoolItem(getArenaSize(sizes, pcall[t].key),
                                        pcall[t].key))
  /\ acq' = Append(acq, [key |-> pcall[t].key, cur |-> 0])
  /\ held' = [held EXCEPT ![t] = @ \cup {Len(items) + 1}]
  /\ pcall' = [pcall EXCEPT ![t].item = Len(items) + 1, ![t].created = TRUE]
  /\ ppc' = [ppc EXCEPT ![t] = "unlock"]
  /\ UNCHANGED <<pool, sizes, released, samples, mu, pcalls>>
  /\ UNCHANGED <<arenaVars, bufferVars, concVars, sliceVars>>

\* defer p.mu.Unlock(): the call returns
PoolUnlock(t) ==
  /\ ppc[t] = "unlock"
  /\ mu' = 0
  /\ ppc' = [ppc EXCEPT ![t] = "idle"]
  /\ pcall' = [pcall EXCEPT ![t] = NoPcall]
  /\ UNCHANGED <<items, acq, pool, sizes, released, samples, held, pcalls>>
  /\ UNCHANGED <<arenaVars, bufferVars, concVars, sliceVars>>

\* the holder of an item allocates n bytes from its arena
Use(t) ==
  /\ ppc[t] = "idle"
  /\ \E i \in held[t], n \in 1..MaxUse :
       LET ar == allocBytes(items[i].Arena, n)
       IN /\ len(ar.buffers) <= MaxLoad
          /\ Len(ar.buffers) <= MaxBuffers
          /\ items' = [items EXCEPT ![i].Arena = ar]
          /\ acq' = [acq EXCEPT ![i].cur = Max(@, len(ar.buffers))]
  /\ UNCHANGED <<pool, sizes, released, samples, mu, ppc, pcall, held, pcalls>>
  /\ UNCHANGED <<arenaVars, bufferVars, concVars, sliceVars>>

\* mutant of releasePeak: the arena is not reset
releasePeak_noReset(its, i) ==
  [peak |-> Peak(its[i].Arena.peak), items |-> its]

\* peak := item.Arena.Peak(); item.Arena.Reset()
releasePeak(its, i) ==
  [peak |-> Peak(its[i].Arena.peak),
   items |-> [its EXCEPT ![i].Arena.buffers = Reset(@)]]

\* mutant of releaseLocked: the Key of the item is left as it is
releaseLocked_keepsKey(P, i, pk) ==
  LET key == P.items[i].Key
      size == P.sizes[key]
      collapsed == IF size.count = SampleWindow
                   THEN [count |-> 1, totalBytes |-> size.totalBytes \div SampleWindow]
                   ELSE size
  IN [items |-> P.items,
      pool |-> Append(P.pool, i),
      sizes |-> IF size.count > 0
                THEN [P.sizes EXCEPT ![key] = [count |-> collapsed.count + 1,
                                               totalBytes |-> collapsed.totalBytes + pk]]
                ELSE [P.sizes EXCEPT ![key] = [count |-> 1, totalBytes |-> pk]]]

\* mutant of releaseLocked: a full statistic restarts at one sample
releaseLocked_restarts(P, i, pk) ==
  LET key == P.items[i].Key
      size == P.sizes[key]
  IN [items |-> [P.items EXCEPT ![i].Key = 0],
      pool |-> Append(P.pool, i),
      sizes |-> IF size.count = SampleWindow
                THEN [P.sizes EXCEPT ![key] =
                        [count |-> 1,
                         totalBytes |-> size.totalBytes \div SampleWindow + pk]]
                ELSE IF size.count > 0
                THEN [P.sizes EXCEPT ![key] = [count |-> size.count + 1,
                                               totalBytes |-> size.totalBytes + pk]]
                ELSE [P.sizes EXCEPT ![key] = [count |-> 1, totalBytes |-> pk]]]

\* the body of Release under the lock, on P = [items, pool, sizes]
releaseLocked(P, i, pk) ==
  LET key == P.items[i].Key
      size == P.sizes[key]
      collapsed == IF size.count = SampleWindow
                   THEN [count |-> 1, totalBytes |-> size.totalBytes \div SampleWindow]
                   ELSE size
  IN [items |-> [P.items EXCEPT ![i].Key = 0],
      pool |-> Append(P.pool, i),
      sizes |-> IF size.count > 0
                THEN [P.sizes EXCEPT ![key] = [count |-> collapsed.count + 1,
                                               totalBytes |-> collapsed.totalBytes + pk]]
                ELSE [P.sizes EXCEPT ![key] = [count |-> 1, totalBytes |-> pk]]]

\* history: item i has just been released
releasedNow(r, i) == SelectSeq(r, LAMBDA j : j # i) \o <<i>>

\* p.Release(item), up to the lock
PoolRelease(t) ==
  /\ ppc[t] = "idle"
  /\ pcalls[t] < MaxPoolCalls
  /\ \E i \in held[t] :
       LET r == releasePeak(items, i)
       IN /\ items' = r.items
          /\ pcall' = [pcall EXCEPT ![t] = [NoPcall EXCEPT !.op = "Release",
                                                          !.item = i, !.peak = r.peak]]
          /\ held' = [held EXCEPT ![t] = @ \ {i}]
  /\ ppc' = [ppc EXCEPT ![t] = "rel_lock"]
  /\ pcalls' = [pcalls EXCEPT ![t] = @ + 1]
  /\ UNCHANGED <<acq, pool, sizes, released, samples, mu>>
  /\ UNCHANGED <<arenaVars, bufferVars, concVars, sliceVars>>

\* p.mu.Lock() of Release
ReleaseLock(t) ==
  /\ ppc[t] = "rel_lock"
  /\ PoolLock(t)
  /\ ppc' = [ppc EXCEPT ![t] = "rel_read"]
  /\ UNCHANGED <<items, acq, pool, sizes, released, samples, pcall, held, pcalls>>
  /\ UNCHANGED <<arenaVars, bufferVars, concVars, sliceVars>>

\* history: the sample pk has been recorded for key
recorded(sm, key, pk) ==
  [sm EXCEPT ![key] = [n |-> @.n + 1,
                       min |-> IF @.n = 0 THEN pk ELSE Min(@.min, pk),
                       max |-> IF @.n = 0 THEN pk ELSE Max(@.max, pk)]]

\* size, ok := p.sizes[item.Key]
ReleaseRead(t) ==
  /\ ppc[t] = "rel_read"
  /\ pcall' = [pcall EXCEPT ![t].key = items[pcall[t].item].Key,
                           ![t].stat0 = sizes[items[pcall[t].item].Key]]
  /\ ppc' = [ppc EXCEPT ![t] = "rel_body"]
  /\ UNCHANGED <<items, acq, pool, sizes, released, samples, mu, held, pcalls>>
  /\ UNCHANGED <<arenaVars, bufferVars, concVars, sliceVars>>

\* the statistic read for item.Key takes the peak, item.Key = 0, and a weak
\* pointer to the item is appended to p.pool
ReleaseBody(t) ==
  /\ ppc[t] = "rel_body"
  /\ LET P == releaseLocked([items |-> items, pool |-> pool,
                             sizes |-> [sizes EXCEPT ![pcall[t].key] = pcall[t].stat0]],
                            pcall[t].item, pcall[t].peak)
     IN /\ items' = P.items
        /\ pool' = P.pool
        /\ sizes' = P.sizes
  /\ released' = releasedNow(released, pcall[t].item)
  /\ samples' = recorded(samples, pcall[t].key, pcall[t].peak)
  /\ ppc' = [ppc EXCEPT ![t] = "unlock"]
  /\ UNCHANGED <<acq, mu, pcall, held, pcalls>>
  /\ UNCHANGED <<arenaVars, bufferVars, concVars, sliceVars>>

\* mutant of releaseManyLoop: the items are taken from the last to the first
RECURSIVE releaseManyLoop_reversed(_, _)
releaseManyLoop_reversed(P, list) ==
  IF list = <<>> THEN P
  ELSE LET item == list[Len(list)]
           pk == Peak(P.items[item].Arena.peak)
           key == P.items[item].Key
           size == P.sizes[key]
           collapsed == IF size.count = SampleWindow
                        THEN [count |-> 1,
                              totalBytes |-> size.totalBytes \div SampleWindow]
                        ELSE size
           P2 == [items |-> [P.items EXCEPT ![item].Arena.buffers = Reset(@),
                                            ![item].Key = 0],
                  pool |-> Append(P.pool, item),
                  sizes |-> IF size.count > 0
                            THEN [P.sizes EXCEPT ![key] =
                                    [count |-> collapsed.count + 1,
                                     totalBytes |-> collapsed.totalBytes + pk]]
                            ELSE [P.sizes EXCEPT ![key] =
                                    [count |-> 1, totalBytes |-> pk]]]
       IN releaseManyLoop_reversed(P2, SubSeq(list, 1, Len(list) - 1))

\* for _, item := range items { ... } of ReleaseMany, on P = [items, pool, sizes]
RECURSIVE releaseManyLoop(_, _)
releaseManyLoop(P, list) ==
  IF list = <<>> THEN P
  ELSE LET item == Head(list)
           pk == Peak(P.items[item].Arena.peak)
           key == P.items[item].Key
           size == P.sizes[key]
           collapsed == IF size.count = SampleWindow
                        THEN [count |-> 1,
                              totalBytes |-> size.totalBytes \div SampleWindow]
                        ELSE size
           P2 == [items |-> [P.items EXCEPT ![item].Arena.buffers = Reset(@),
                                            ![item].Key = 0],
                  pool |-> Append(P.pool, item),
                  sizes |-> IF size.count > 0
                            THEN [P.sizes EXCEPT ![key] =
                                    [count |-> collapsed.count + 1,
                                     totalBytes |-> collapsed.totalBytes + pk]]
                            ELSE [P.sizes EXCEPT ![key] =
                                    [count |-> 1, totalBytes |-> pk]]]
       IN releaseManyLoop(P2, Tail(list))

\* the sequences without repetition over the set S, up to MaxMany long
ListsOf(S) ==
  { l \in UNION { [1..n -> S] : n \in 0..MaxMany } :
      \A i, j \in 1..Len(l) : i # j => l[i] # l[j] }

\* history: the samples ReleaseMany records for the items of list
RECURSIVE recordedAll(_, _, _)
recordedAll(sm, its, list) ==
  IF list = <<>> THEN sm
  ELSE recordedAll(recorded(sm, its[Head(list)].Key, its[Head(list)].Arena.peak),
                   its, Tail(list))

RECURSIVE releasedAll(_, _)
releasedAll(r, list) ==
  IF list = <<>> THEN r ELSE releasedAll(releasedNow(r, Head(list)), Tail(list))

\* p.ReleaseMany(items), up to the lock
PoolReleaseMany(t) ==
  /\ ppc[t] = "idle"
  /\ pcalls[t] < MaxPoolCalls
  /\ PoolLock(t)
  /\ \E list \in ListsOf(held[t]) :
       /\ pcall' = [pcall EXCEPT ![t] = [NoPcall EXCEPT !.op = "ReleaseMany",
                                                       !.list = list]]
       /\ held' = [held EXCEPT ![t] = @ \ {list[i] : i \in 1..Len(list)}]
  /\ ppc' = [ppc EXCEPT ![t] = "many_body"]
  /\ pcalls' = [pcalls EXCEPT ![t] = @ + 1]
  /\ UNCHANGED <<items, acq, pool, sizes, released, samples>>
  /\ UNCHANGED <<arenaVars, bufferVars, concVars, sliceVars>>

\* the loop of ReleaseMany under the lock
ReleaseManyBody(t) ==
  /\ ppc[t] = "many_body"
  /\ LET P == releaseManyLoop([items |-> items, pool |-> pool, sizes |-> sizes],
                              pcall[t].list)
     IN /\ items' = P.items
        /\ pool' = P.pool
        /\ sizes' = P.sizes
  /\ released' = releasedAll(released, pcall[t].list)
  /\ samples' = recordedAll(samples, items, pcall[t].list)
  /\ ppc' = [ppc EXCEPT ![t] = "unlock"]
  /\ UNCHANGED <<acq, mu, pcall, held, pcalls>>
  /\ UNCHANGED <<arenaVars, bufferVars, concVars, sliceVars>>

\* the items some goroutine has a pointer to
Referenced ==
  UNION {held[t] \cup {pcall[t].item} \cup
         {pcall[t].list[i] : i \in 1..Len(pcall[t].list)} : t \in Threads}

\* the garbage collector reclaims an item that only weak pointers refer to
Collect ==
  /\ \E i \in 1..Len(items) :
       /\ ~items[i].collected
       /\ i \notin Referenced
       /\ items' = [items EXCEPT ![i] = Collected]
       /\ acq' = [acq EXCEPT ![i] = NoAcq]
  /\ UNCHANGED <<pool, sizes, released, samples, mu, ppc, pcall, held, pcalls>>
  /\ UNCHANGED <<arenaVars, bufferVars, concVars, sliceVars>>

\* the statistics a pool may have gathered before the run: none, or one
\* sample short of the window for one key
InitSizes ==
  {[k \in Keys |-> NoStat]} \cup
  {[k \in Keys |-> IF k = key THEN [count |-> SampleWindow - 1,
                                     totalBytes |-> 2 * SampleWindow - 1]
                   ELSE NoStat] : key \in Keys \ {0}}

\* history of the statistics of InitSizes: 49 samples that add up to 99 are
\* 48 samples of 2 bytes and one of 3
InitSamples(sz) ==
  [k \in Keys |-> IF sz[k].count = 0 THEN NoSamples
                  ELSE [n |-> sz[k].count, min |-> 2, max |-> 3]]

InitPool ==
  /\ InitArena /\ InitConcurrent("monotonic") /\ InitCaller({"monotonic"}, {ByteT})
  /\ minBufferSize = 0 /\ initialBufferCount = 0
  /\ NewArenaPool
  /\ sizes \in InitSizes
  /\ samples = InitSamples(sizes)

NextPool ==
  \/ \E t \in Threads :
       \/ PoolAcquire(t)
       \/ AcquireLoop(t)
       \/ AcquirePop(t)
       \/ AcquireNew(t)
       \/ PoolUnlock(t)
       \/ Use(t)
       \/ PoolRelease(t)
       \/ ReleaseLock(t)
       \/ ReleaseRead(t)
       \/ ReleaseBody(t)
       \/ PoolReleaseMany(t)
       \/ ReleaseManyBody(t)
  \/ Collect

SpecPool == InitPool /\ [][NextPool]_vars

\* ---- the rolling statistic of one key (pool.go) ----
\* Release and ReleaseMany applied again and again to one item of key StatKey
\* whose arena has any peak of 0..MaxPeak: only p.sizes and its history move.

StatKey == 1

\* a pool with one held item of key StatKey whose arena has peak pk
statPool(pk) ==
  [items |-> <<[newPoolItem(DefaultArenaSize, StatKey) EXCEPT !.Arena.peak = pk]>>,
   pool |-> <<>>, sizes |-> sizes]

\* p.Release(item) records the peak of the item
SampleRelease ==
  /\ samples[StatKey].n < MaxSamples
  /\ \E pk \in 0..MaxPeak :
       LET r == releasePeak(statPool(pk).items, 1)
       IN /\ sizes' = releaseLocked([statPool(pk) EXCEPT !.items = r.items], 1,
                                    r.peak).sizes
          /\ samples' = recorded(samples, StatKey, r.peak)
  /\ UNCHANGED <<items, pool, mu, ppc, pcall, held, acq, released, pcalls>>
  /\ UNCHANGED <<arenaVars, bufferVars, concVars, sliceVars>>

\* p.ReleaseMany([]*PoolItem{item}) records the peak of the item
SampleReleaseMany ==
  /\ samples[StatKey].n < MaxSamples
  /\ \E pk \in 0..MaxPeak :
       /\ sizes' = releaseManyLoop(statPool(pk), <<1>>).sizes
       /\ samples' = recorded(samples, StatKey, pk)
  /\ UNCHANGED <<items, pool, mu, ppc, pcall, held, acq, released, pcalls>>
  /\ UNCHANGED <<arenaVars, bufferVars, concVars, sliceVars>>

InitStats ==
  /\ InitArena /\ InitConcurrent("monotonic") /\ InitCaller({"monotonic"}, {ByteT})
  /\ minBufferSize = 0 /\ initialBufferCount = 0
  /\ NoPool

NextStats == SampleRelease \/ SampleReleaseMany

SpecStats == InitStats /\ [][NextStats]_vars

TypeOK ==
  /\ peak \in Nat
  /\ panicked \in BOOLEAN
  /\ \A i \in 1..Len(buffers) : buffers[i].offset \in Nat /\ buffers[i].size \in Nat

\* ---- properties of the monotonic arena ----

Live(k) == allocs[k]
InRange(a, lo, n) == lo <= a /\ a < lo + n
Returned == last.op = "Alloc" /\ ~panicked

\* C2: Alloc on any reachable arena, for any size >= 0 and alignment >= 1,
\* returns a non-null pointer and never panics, whatever base address the
\* host gives to a newly materialized buffer.
C2_AllocNeverFails == last.op = "Alloc" => (~panicked /\ last.ptr # NilPtr)

\* the parts of C3: a state predicate and a step predicate
C3_Disjoint ==
  \A i, j \in 1..Len(allocs) :
    i < j => ~Overlap(Live(i).ptr, Live(i).size, Live(j).ptr, Live(j).size)
C3_LaterAllocKeepsLiveBytes ==
  (last'.op = "Alloc" /\ Len(allocs') = Len(allocs) + 1) =>
    \A k \in 1..Len(allocs) : \A a \in Addr :
      InRange(a, Live(k).ptr, Live(k).size) => mem'[a] = mem[a]
\* C3: between two Reset/Release calls the byte ranges of any two allocations
\* with size > 0 are disjoint, and the zeroing done by a later Alloc changes
\* no byte of an earlier allocation that is still live.
C3_NoAliasing == []C3_Disjoint /\ [][C3_LaterAllocKeepsLiveBytes]_vars
C3_Witness ==
  /\ last.op = "Alloc" /\ Len(allocs) >= 2
  /\ Live(1).size > 0 /\ Live(2).size > 0 /\ Live(1).idx = Live(2).idx
  /\ mem[Live(1).ptr] # 0

\* C4: every pointer returned by Alloc(size, alignment) is a multiple of
\* alignment, for every base address and every buffer offset.
C4_Aligned ==
  /\ Returned => last.ptr % last.alignment = 0
  /\ \A k \in 1..Len(allocs) : Live(k).ptr % Live(k).alignment = 0
C4_Witness == Returned /\ last.pad > 0 /\ buffers[last.idx].offset > last.size + last.pad

\* C5: the size bytes at the returned address are all zero when Alloc returns,
\* also when the region reuses memory the caller wrote to before a Reset.
C5_Zeroed ==
  Returned => \A a \in Addr : InRange(a, last.ptr, last.size) => mem[a] = 0
C5_Witness == Returned /\ last.dirty /\ last.size > 0

\* the sums C6 compares Len with
SumOfAllocs == SumSeq([k \in 1..Len(allocs) |-> Live(k).size + Live(k).pad])
SumOfSizes == SumSeq([k \in 1..Len(allocs) |-> Live(k).size])
\* C6: Len equals the sum of size plus padding over the allocations made since
\* construction or the last Reset/Release; with alignment 1 the padding is 0,
\* so Len is the sum of the sizes, also when several buffers served the calls.
C6_LenIsSum ==
  /\ len(buffers) = SumOfAllocs
  /\ \A k \in 1..Len(allocs) : Live(k).alignment = 1 => Live(k).pad = 0
  /\ (\A k \in 1..Len(allocs) : Live(k).alignment = 1) => len(buffers) = SumOfSizes
C6_Witness ==
  /\ Len(allocs) >= 2 /\ Live(1).idx # Live(2).idx
  /\ Live(1).size > 0 /\ Live(2).size > 0
  /\ \E k \in 1..Len(allocs) : Live(k).pad > 0

\* the parts of C7: a state predicate and a step predicate
C7_PeakIsMaxLen == Peak(peak) = maxLen /\ Peak(peak) >= len(buffers)
C7_PeakStep ==
  /\ Peak(peak') >= Peak(peak)
  /\ Peak(peak') > Peak(peak) =>
       (last'.op = "Alloc" /\ len(buffers') > Peak(peak) /\ Peak(peak') = len(buffers'))
\* C7: Peak never decreases, equals the largest Len seen after any Alloc since
\* construction, so Peak >= Len; Peak rises only in an Alloc whose new Len
\* exceeds the old Peak.
C7_Peak == []C7_PeakIsMaxLen /\ [][C7_PeakStep]_vars
C7_Witness ==
  /\ Returned /\ last.size > 0 /\ len(buffers) < Peak(peak) /\ Len(buffers) >= 2

\* what a Reset step must satisfy
C8_ResetStep ==
  last'.op = "Reset" =>
    /\ len(buffers') = 0
    /\ Cap(buffers') = Cap(buffers)
    /\ Peak(peak') = Peak(peak)
    /\ Len(buffers') = Len(buffers)
    /\ \A i \in 1..Len(buffers) :
         buffers'[i].size = buffers[i].size /\ buffers'[i].ptr = buffers[i].ptr
\* C8: Reset sets Len to 0 and leaves Cap, Peak, the number of buffers and
\* every buffer's size and base address unchanged.
C8_ResetFrame == [][C8_ResetStep]_vars
C8_Witness ==
  /\ last.op = "Reset" /\ Peak(peak) > 0 /\ Len(buffers) >= 2
  /\ \A i \in 1..Len(buffers) : buffers[i].ptr # NilPtr

\* what a Release step must satisfy
C9_ReleaseStep ==
  last'.op = "Release" =>
    /\ len(buffers') = 0
    /\ \A i \in 1..Len(buffers') : buffers'[i].ptr = NilPtr
    /\ Peak(peak') = Peak(peak)
    /\ Cap(buffers') = Cap(buffers)
    /\ Len(buffers') = Len(buffers)
    /\ \A i \in 1..Len(buffers) : buffers'[i].size = buffers[i].size
\* C9: Release sets Len to 0 and drops every buffer's base address, and leaves
\* Peak, Cap, the number of buffers and each buffer's size unchanged.
C9_ReleaseFrame == [][C9_ReleaseStep]_vars
C9_Witness ==
  /\ last.op = "Release" /\ Peak(peak) > 0 /\ Len(buffers) >= 2 /\ Cap(buffers) > 0

\* what the first Alloc after a Release must satisfy
C10_AllocAfterReleaseStep ==
  (last.op = "Release" /\ last'.op = "Alloc") =>
    /\ ~panicked'
    /\ last'.ptr # NilPtr
    /\ last'.ptr % last'.alignment = 0
    /\ \A a \in Addr : InRange(a, last'.ptr, last'.size) => mem'[a] = 0
    /\ len(buffers') = last'.size + last'.pad
\* C10: the arena stays usable after Release: the next Alloc returns a
\* non-null, aligned, zeroed region and Len afterwards is its size plus padding.
C10_UsableAfterRelease == [][C10_AllocAfterReleaseStep]_vars

\* ---- properties of the byte buffer ----

\* the bytes written so far with the consumed ones removed from the front
Unread == SubSeq(written, consumed + 1, Len(written))

\* C1: after any interleaving of Write/WriteByte/WriteString with
\* Read/ReadByte/Next, Bytes and String are exactly the bytes written so far,
\* in order, minus the bytes already consumed, and Len is their number.
C1_UnreadWindow ==
  /\ Bytes = Unread
  /\ String = Unread
  /\ BufferLen = Len(written) - consumed

\* ---- properties of the concurrent arena ----

\* no goroutine is inside a call
Quiescent == mtx = 0 /\ \A t \in Threads : pc[t] = "idle"

C12_NilStep ==
  inner = "nil" =>
    UNCHANGED <<buffers, peak, minBufferSize, initialBufferCount, mem, panicked>>
\* C12: on a concurrent arena that wraps nil, in any order and from any
\* goroutine, Alloc returns nil, Len, Cap and Peak return 0, Reset and Release
\* change nothing, and no call panics.
C12_NilInner ==
  /\ [](inner = "nil" => (~panicked /\ \A t \in Threads : cret[t].val = 0))
  /\ [][C12_NilStep]_vars
C12_Witness ==
  /\ inner = "nil" /\ Quiescent
  /\ \E t, u \in Threads :
       /\ cret[t].op = "Alloc" /\ cret[u].op = "Release"
       /\ calls[t] = MaxCalls /\ calls[u] = MaxCalls

\* the calls that write to the Buffer
WriteOps == {"Write", "WriteByte", "WriteString"}

\* what a Read that follows a Write on an empty window must satisfy
C13_RoundTripStep ==
  (/\ ret.op = "Write" /\ ret.arg.wasEmpty
   /\ ret'.op = "Read" /\ ret'.arg.lenP = Len(ret.arg.p)) =>
    (ret'.data = ret.arg.p /\ off' = 0)
\* C13: on a buffer whose unread window is empty (new, reset or fully read),
\* Write(b) followed by Read(p) with len(p) = len(b) fills p with exactly b
\* and leaves Len = 0.
C13_RoundTrip == [][C13_RoundTripStep]_vars

\* what a Truncate step must satisfy
C14_TruncateStep ==
  ret'.op = "Truncate" =>
    LET n == ret'.arg.n
    IN IF n < 0 \/ n > BufferLen
       THEN panicked' /\ Bytes' = Bytes /\ BufferLen' = BufferLen
       ELSE ~panicked' /\ Bytes' = SubSeq(Bytes, 1, n) /\ BufferLen' = n
\* C14: Truncate(n) with n < 0 or n > Len() panics and leaves the unread
\* window and Len unchanged; with 0 <= n <= Len() it does not panic and the
\* unread window becomes its own first n bytes.
C14_Truncate == [][C14_TruncateStep]_vars
C14_Witness ==
  /\ ret.op = "Truncate" /\ ~panicked /\ consumed = 0
  /\ BufferLen = ret.arg.n /\ BufferLen > 0 /\ BufferLen < Len(buf.data)

\* what a Read step must satisfy
C15_ReadStep ==
  ret'.op = "Read" =>
    LET lenP == ret'.arg.lenP
        n == Min(lenP, BufferLen)
    IN IF BufferLen = 0
       THEN ret'.n = 0 /\ ret'.err = "EOF" /\ UNCHANGED <<buf, off>>
       ELSE /\ ret'.n = n
            /\ ret'.data = SubSeq(Bytes, 1, n)
            /\ (ret'.err = "EOF") <=> (n < lenP)
            /\ ret'.err \in {"EOF", "nil"}
            /\ BufferLen' = BufferLen - n
            /\ Bytes' = SubSeq(Bytes, n + 1, BufferLen)
\* C15: Read(p) on an empty unread window returns (0, EOF) and changes
\* nothing; otherwise it returns n = min(len(p), Len()) with the first n
\* unread bytes in p, EOF exactly when n < len(p), and Len decreases by n.
C15_Read == [][C15_ReadStep]_vars
C15_Witness ==
  /\ ret.op = "Read" /\ ret.n = ret.arg.lenP /\ ret.n > 0 /\ ret.err = "nil"
  /\ BufferLen = 0

\* what a Next step must satisfy
C16_NextStep ==
  ret'.op = "Next" =>
    LET n == ret'.arg.n
        m == IF n <= 0 THEN 0 ELSE Min(n, BufferLen)
    IN /\ ret'.data = SubSeq(Bytes, 1, m)
       /\ ret'.arg.fresh
       /\ BufferLen' = BufferLen - m
       /\ Bytes' = SubSeq(Bytes, m + 1, BufferLen)
       /\ m = 0 => UNCHANGED <<buf, off>>
\* C16: Next(n) returns a copy of the first min(n, Len()) unread bytes in a
\* slice of its own and removes exactly those bytes; for n <= 0 or an empty
\* buffer it returns an empty slice and leaves the buffer unchanged.
C16_Next == [][C16_NextStep]_vars
C16_Witness ==
  /\ ret.op = "Next" /\ ret.n > 0 /\ ret.n = ret.arg.n /\ BufferLen > 0

\* what a WriteTo step must satisfy
C17_WriteToStep ==
  ret'.op = "WriteTo" =>
    LET a == ret'.arg
    IN IF BufferLen = 0
       THEN /\ ~a.called /\ ret'.n = 0 /\ ret'.err = "nil"
            /\ UNCHANGED <<buf, off>>
       ELSE /\ a.called /\ a.offered = Bytes
            /\ ret'.n = a.m /\ ret'.err = a.werr
            /\ BufferLen' = BufferLen - a.m
            /\ Bytes' = SubSeq(Bytes, a.m + 1, BufferLen)
\* C17: WriteTo(w) offers the whole unread window to w in one Write; when w
\* accepts m bytes it returns (m, w's error), the first m bytes are removed
\* and the other Len()-m stay unread in order; on an empty buffer it returns
\* (0, nil) without calling w.
C17_WriteTo == [][C17_WriteToStep]_vars
C17_Witness ==
  /\ ret.op = "WriteTo" /\ ret.arg.called /\ ret.arg.m > 0 /\ BufferLen > 0
  /\ ret.err = "short write"

\* what a ReadFrom step must satisfy
C18_ReadFromStep ==
  ret'.op = "ReadFrom" =>
    LET d == ret'.arg.delivered
    IN /\ ~panicked'
       /\ ret'.n = Len(d)
       /\ ret'.err = IF ret'.arg.er = "EOF" THEN "nil" ELSE ret'.arg.er
       /\ BufferLen' >= Len(d)
       /\ SubSeq(Bytes', BufferLen' - Len(d) + 1, BufferLen') = d
\* C18: ReadFrom(r) appends to the buffer every byte r delivers, in order,
\* and returns their count; it returns no error when r ends with EOF, and r's
\* error with the count so far otherwise, the bytes ingested staying unread.
C18_ReadFrom == [][C18_ReadFromStep]_vars
C18_Witness ==
  /\ ret.op = "ReadFrom" /\ ret.err = "broken" /\ ret.n = MaxReads
  /\ arena = "monotonic" /\ BufferLen > ret.n

\* what a Reset step, and a write step that follows a Reset, must satisfy
C19_ResetStep ==
  /\ ret'.op = "Reset" =>
       (BufferLen' = 0 /\ Bytes' = <<>> /\ BufferCap' = BufferCap)
  /\ (ret.op = "Reset" /\ ret'.op \in WriteOps) => Bytes' = ret'.arg.p
\* C19: Buffer.Reset makes Len = 0 and the unread window empty and keeps Cap;
\* a second Reset changes nothing; a Write(p) after Reset makes the unread
\* window exactly p.
C19_Reset ==
  /\ [](ret.op = "Reset" => (resetOf(buf) = buf /\ off = 0))
  /\ [][C19_ResetStep]_vars
\* a Write of one byte into storage kept by a Reset: the arena never gives a
\* capacity above 1 to a first write of one byte
C19_Witness ==
  /\ ret.op = "Write" /\ arena = "monotonic"
  /\ written = ret.arg.p /\ consumed = 0 /\ buf.data = ret.arg.p
  /\ Len(ret.arg.p) = 1 /\ BufferCap > 1

\* ---- properties of the typed helpers ----

C21_AllocateStep ==
  (arena = "monotonic" /\ last'.op = "Alloc" /\ ~panicked') =>
    /\ hret'.op = "AllocateSlice" =>
         /\ hret'.inArena
         /\ Len(sl'.s.data) = hret'.length /\ sl'.s.cap = hret'.capacity
         /\ \A i \in 1..Len(sl'.s.data) : sl'.s.data[i] = 0
         /\ len(buffers') =
              len(buffers) + hret'.capacity * hret'.T.size + last'.pad
         /\ last'.pad < hret'.T.align
    /\ hret'.op = "Allocate" =>
         /\ hret'.inArena /\ hret'.val = 0
         /\ len(buffers') = len(buffers) + hret'.T.size + last'.pad
         /\ last'.pad < hret'.T.align
C21_Allocate == [][C21_AllocateStep]_vars
C21_Witness ==
  /\ arena = "monotonic" /\ ~panicked
  /\ hret.op = "AllocateSlice" /\ hret.inArena
  /\ last.op = "Alloc" /\ last.dirty
  /\ hret.length > 0 /\ hret.capacity > hret.length

\* C22: SliceAppend(a, s, data) with a non-nil arena returns a slice that holds
\* s followed by data, of length len(s)+len(data), whose capacity is at least
\* its length and at least the capacity of s, after every append of a run.
C22_SliceAppend ==
  (arena # "nil" /\ hret.op = "SliceAppend" /\ ~panicked) =>
    /\ sl.s.data = hret.s.data \o hret.data
    /\ Len(sl.s.data) = Len(hret.s.data) + Len(hret.data)
    /\ sl.s.cap >= Len(sl.s.data)
    /\ sl.s.cap >= hret.s.cap
C22_Witness ==
  /\ arena = "monotonic" /\ ~panicked
  /\ hret.op = "SliceAppend" /\ hret.called /\ hret.inArena
  /\ \E i \in 1..Len(hret.s.data) : hret.s.data[i] # 0
  /\ Len(hret.data) > 0 /\ hret.s.cap > 0

\* C28: bytes discarded by Truncate(n) never come back: when Write(p) follows
\* Truncate(n), the unread window is the n kept bytes followed by p and
\* Len = n + len(p).
C28_TruncateWriteStep ==
  (ret.op = "Truncate" /\ ~panicked /\ ret'.op = "Write") =>
    /\ Bytes' = Bytes \o ret'.arg.p
    /\ BufferLen' = ret.arg.n + Len(ret'.arg.p)
C28_TruncateThenWrite == [][C28_TruncateWriteStep]_vars

\* ---- properties of the arena pool ----

\* the items the pool refers to
Pooled == {pool[i] : i \in 1..Len(pool)}

\* C23: under any interleaving of Acquire and Release by several goroutines
\* that release each acquired item once, no item is held by two goroutines at
\* a time, no item the pool refers to is held, and the pool never contains
\* two references to the same item.
C23_OneHolder ==
  /\ \A t1, t2 \in Threads : t1 # t2 => held[t1] \cap held[t2] = {}
  /\ \A t \in Threads : held[t] \cap Pooled = {}
  /\ \A i, j \in 1..Len(pool) : i # j => pool[i] # pool[j]
C23_Witness ==
  /\ \A t \in Threads : held[t] # {} /\ ppc[t] = "idle"
  /\ released # <<>>

\* the position of item x in the sequence r
posIn(r, x) == CHOOSE i \in 1..Len(r) : r[i] = x

\* goroutine t returns from the body of Acquire in this step
AcquireReturns(t) ==
  ppc[t] \in {"acq_loop", "acq_pop"} /\ ppc'[t] = "unlock"

\* C24: Acquire(key) returns the most recently released item whose reference
\* is still alive, with Key = key, and removes from the pool that reference and
\* every dead reference it inspected; it creates an item only when no live
\* reference is left; it never returns a collected item; it makes at most as
\* many pops as the pool had entries when the call began.
C24_AcquireStep ==
  \A t \in Threads : AcquireReturns(t) =>
    LET c == pcall'[t]
        v == c.item
        pool0 == c.pool0
        k == Len(pool0) - c.pops + 1
    IN /\ v \in held'[t]
       /\ ~items'[v].collected
       /\ items'[v].Key = c.key
       /\ \A j \in 1..Len(pool0) : j >= k /\ pool0[j] # v => items'[pool0[j]].collected
       /\ IF c.created
          THEN /\ v = Len(items) + 1
               /\ c.pops = Len(pool0)
               /\ pool' = <<>>
          ELSE /\ c.pops >= 1
               /\ v = pool0[k]
               /\ pool' = SubSeq(pool0, 1, k - 1)
               /\ \A j \in 1..Len(pool0) :
                    (~items'[pool0[j]].collected /\ pool0[j] # v) =>
                      posIn(released, pool0[j]) < posIn(released, v)
C24_BoundedPops ==
  \A t \in Threads : pcall[t].pops <= Len(pcall[t].pool0)
C24_Acquire == []C24_BoundedPops /\ [][C24_AcquireStep]_vars
C24_Witness ==
  \E t \in Threads :
    /\ ppc[t] = "unlock" /\ pcall[t].op = "Acquire"
    /\ ~pcall[t].created /\ pcall[t].pops >= 2
    /\ pool = <<>>

\* C25: an item that Acquire(key) creates has an arena with one buffer whose
\* capacity is totalBytes/count (integer division) of the statistic of key, or
\* 1 MiB when key has no statistic; an item taken from the pool keeps the
\* buffers it had, whatever the statistic of key says.
C25_ArenaSizeStep ==
  \A t \in Threads : AcquireReturns(t) =>
    LET c == pcall'[t]
        v == c.item
        stat == sizes[c.key]
    IN IF c.created
       THEN /\ Len(items'[v].Arena.buffers) = 1
            /\ Cap(items'[v].Arena.buffers) =
                 IF stat.count > 0 THEN stat.totalBytes \div stat.count
                 ELSE DefaultArenaSize
            /\ len(items'[v].Arena.buffers) = 0
       ELSE items'[v].Arena.buffers = items[v].Arena.buffers
C25_ArenaSize == [][C25_ArenaSizeStep]_vars
C25_Witness ==
  \E t \in Threads :
    /\ ppc[t] = "unlock" /\ pcall[t].op = "Acquire" /\ pcall[t].created
    /\ sizes[pcall[t].key].count > 1
    /\ sizes[pcall[t].key].totalBytes % sizes[pcall[t].key].count # 0
    /\ \E u \in Threads : \E i \in held[u] :
         Cap(items[i].Arena.buffers) # Cap(items[pcall[t].item].Arena.buffers)

\* Release(item) for each item of list in order, on P = [items, pool, sizes]
RECURSIVE ReleaseEach(_, _)
ReleaseEach(P, list) ==
  IF list = <<>> THEN P
  ELSE LET r == releasePeak(P.items, Head(list))
       IN ReleaseEach(releaseLocked([P EXCEPT !.items = r.items], Head(list), r.peak),
                      Tail(list))

\* C26: ReleaseMany(items) leaves the pool in the state that Release on each
\* item in the same order leaves it in: the same statistics per key, the same
\* order of references in p.pool, Key = 0 and a reset arena for every item.
C26_ReleaseManyStep ==
  \A t \in Threads : (ppc[t] = "many_body" /\ ppc'[t] = "unlock") =>
    /\ [items |-> items', pool |-> pool', sizes |-> sizes'] =
         ReleaseEach([items |-> items, pool |-> pool, sizes |-> sizes], pcall[t].list)
    /\ \A k \in 1..Len(pcall[t].list) :
         /\ items'[pcall[t].list[k]].Key = 0
         /\ len(items'[pcall[t].list[k]].Arena.buffers) = 0
         /\ pool'[Len(pool) + k] = pcall[t].list[k]
C26_ReleaseMany == [][C26_ReleaseManyStep]_vars
C26_Witness ==
  \E t \in Threads :
    /\ ppc[t] = "unlock" /\ pcall[t].op = "ReleaseMany"
    /\ Len(pcall[t].list) = 2
    /\ acq[pcall[t].list[1]].key # acq[pcall[t].list[2]].key
    /\ acq[pcall[t].list[1]].cur > acq[pcall[t].list[2]].cur
    /\ acq[pcall[t].list[2]].cur > 0

\* C27 as stated: an item's Key is 0 exactly when the item is not in use:
\* every item the pool refers to has Key = 0, and every item a goroutine holds
\* after Acquire(key), for any key, has a non-zero Key equal to key.
C27_KeyZeroIffUnused ==
  /\ \A i \in Pooled : items[i].Key = 0
  /\ \A t \in Threads : \A i \in held[t] :
       items[i].Key # 0 /\ items[i].Key = acq[i].key

\* C27, for keys other than 0: every item the pool refers to has Key = 0, and
\* every item a goroutine holds after Acquire(key) has Key = key, which is
\* non-zero when key is.
C27_KeyOfHeld ==
  /\ \A i \in Pooled : items[i].Key = 0
  /\ \A t \in Threads : \A i \in held[t] :
       /\ items[i].Key = acq[i].key
       /\ acq[i].key # 0 => items[i].Key # 0
C27_Witness ==
  /\ \E i \in Pooled : ~items[i].collected /\ acq[i].key # 0
  /\ \E t \in Threads : \E i \in held[t] :
       acq[i].key # 0 /\ released # <<>> /\ released[Len(released)] = i

\* goroutine t runs the locked body of Release in this step
ReleaseRecords(t) == ppc[t] = "rel_body" /\ ppc'[t] = "unlock"

\* C29: the sample that Release(item) adds to the statistic of the item's key
\* is the largest number of bytes in use in the item's arena during the
\* acquisition that is being released, whatever the arena was used for before.
C29_SampleStep ==
  \A t \in Threads : ReleaseRecords(t) =>
    LET i == pcall[t].item
        key == items[i].Key
        stat == sizes[key]
        before == IF stat.count = SampleWindow
                  THEN stat.totalBytes \div SampleWindow ELSE stat.totalBytes
    IN sizes'[key].totalBytes = before + acq[i].cur
C29_SampleIsPeakOfAcquisition == [][C29_SampleStep]_vars

\* C30: Release(item) for key k with peak p: with no statistic for k,
\* (count, totalBytes) becomes (1, p); with count c < 50, (c+1, totalBytes+p);
\* with count = 50, the statistic collapses to (1, totalBytes/50 rounded down)
\* and then takes the sample, giving (2, totalBytes/50 + p); the statistics
\* of all other keys do not change.
C30_StatisticStep ==
  \A t \in Threads : ReleaseRecords(t) =>
    LET k == items[pcall[t].item].Key
        p == pcall[t].peak
        c == sizes[k].count
        total == sizes[k].totalBytes
    IN /\ c = 0 => sizes'[k] = [count |-> 1, totalBytes |-> p]
       /\ (0 < c /\ c < 50) => sizes'[k] = [count |-> c + 1, totalBytes |-> total + p]
       /\ c = 50 => sizes'[k] = [count |-> 2, totalBytes |-> total \div 50 + p]
       /\ \A o \in Keys \ {k} : sizes'[o] = sizes[o]
C30_Statistic == [][C30_StatisticStep]_vars
C30_Witness ==
  \E t \in Threads :
    /\ ppc[t] = "unlock" /\ pcall[t].op = "Release"
    /\ pcall[t].stat0.count = 50 /\ pcall[t].stat0.totalBytes % 50 # 0
    /\ pcall[t].peak > 0
    /\ sizes[pcall[t].key].count = 2

\* C31: for every key that has a statistic, 1 <= count <= 50 after any
\* Release and ReleaseMany calls of the goroutines, so getArenaSize never
\* divides by zero, and no sample of a concurrent Release is lost: while fewer
\* than 50 samples have been recorded for a key, count is their number.
C31_CountInRange ==
  \A k \in Keys :
    /\ sizes[k].count <= 50
    /\ samples[k].n > 0 => sizes[k].count >= 1
    /\ samples[k].n < 50 => sizes[k].count = samples[k].n
C31_Witness ==
  \E t, u \in Threads :
    /\ t # u
    /\ ppc[t] = "unlock" /\ pcall[t].op = "Release"
    /\ ppc[u] = "rel_lock" /\ items[pcall[u].item].Key = pcall[t].key
    /\ sizes[pcall[t].key].count = 50

\* C32: the estimated size of a key, totalBytes/count, always lies between
\* the smallest and the largest sample ever recorded for the key, also after
\* the collapse at 50 samples; when all recorded samples equal P it is P.
C32_EstimateInRange ==
  \A k \in Keys : sizes[k].count > 0 =>
    /\ samples[k].min <= getArenaSize(sizes, k)
    /\ getArenaSize(sizes, k) <= samples[k].max
    /\ samples[k].min = samples[k].max => getArenaSize(sizes, k) = samples[k].min
C32_Witness ==
  /\ samples[StatKey].n > 51
  /\ samples[StatKey].min < samples[StatKey].max
  /\ sizes[StatKey].totalBytes % sizes[StatKey].count # 0
  /\ getArenaSize(sizes, StatKey) > samples[StatKey].min

\* C33: every arena the pool refers to has Len = 0, and an item returned by
\* Acquire starts with an empty arena (callers allocate only from items they
\* hold).
C33_PooledEmpty ==
  \A i \in Pooled : ~items[i].collected => len(items[i].Arena.buffers) = 0
C33_AcquireStep ==
  \A t \in Threads : AcquireReturns(t) =>
    len(items'[pcall'[t].item].Arena.buffers) = 0
C33_EmptyArena == []C33_PooledEmpty /\ [][C33_AcquireStep]_vars
C33_Witness ==
  \E t \in Threads :
    /\ ppc[t] = "unlock" /\ pcall[t].op = "Acquire" /\ ~pcall[t].created
    /\ items[pcall[t].item].Arena.peak > 0
    /\ \E i \in Pooled : ~items[i].collected /\ items[i].Arena.peak > 0

\* what the inner call of goroutine t must satisfy when it runs: t holds the
\* mutex, the fields it read are the wrapped arena's current ones, and its
\* effect and result are those of the same call on the wrapped arena alone
C34_InnerStep ==
  \A t \in Threads : (pc[t] = "loaded" /\ pc'[t] = "unlock") =>
    /\ mtx = t
    /\ snap[t].buffers = buffers /\ snap[t].peak = peak
    /\ call[t].op = "Alloc" =>
         \E r \in Alloc(buffers, peak, minBufferSize, mem, call[t].size, AlignofByte) :
           /\ buffers' = r.buffers /\ peak' = r.peak /\ mem' = r.mem
           /\ cret'[t].val = r.ptr
    /\ call[t].op = "Reset" => (buffers' = Reset(buffers) /\ peak' = peak)
    /\ call[t].op = "Release" => (buffers' = Release(buffers) /\ peak' = peak)
    /\ call[t].op = "Len" => (cret'[t].val = len(buffers) /\ buffers' = buffers)
    /\ call[t].op = "Cap" => (cret'[t].val = Cap(buffers) /\ buffers' = buffers)
    /\ call[t].op = "Peak" => (cret'[t].val = Peak(peak) /\ buffers' = buffers)
C34_OneInside ==
  \A t, u \in Threads :
    (pc[t] # "idle" /\ pc[u] # "idle") => (t = u /\ mtx = t)
\* C34: at most one goroutine at a time is inside an operation of the wrapped
\* arena, each inner call runs while its goroutine holds the mutex, and every
\* inner call acts on the wrapped arena as the calls before it left it, so
\* the results are those of the calls run one after the other in the order
\* they took the mutex.
C34_Serialized == []C34_OneInside /\ [][C34_InnerStep]_vars
C34_Witness ==
  \E t, u \in Threads :
    /\ t # u /\ inner = "monotonic"
    /\ pc[t] = "unlock" /\ call[t].op = "Len" /\ cret[t].val > 0
    /\ pc[u] = "idle" /\ cret[u].op = "Alloc" /\ calls[t] = 2 /\ calls[u] = 2
    /\ Len(buffers) > 1

\* the deferred Unlock of a returning call frees the mutex
C35_ReturnStep ==
  \A t \in Threads : (pc[t] = "unlock" /\ pc'[t] = "idle") => mtx' = 0
\* C35: every operation of the concurrent arena releases the mutex when it
\* returns, also when the wrapped arena is nil; under a fair scheduler every
\* call that was begun returns and every goroutine gets to make all its calls
\* (as long as the host has memory for the buffers Alloc asks for).
C35_EveryCallReturns ==
  /\ [][C35_ReturnStep]_vars
  /\ []((\A t \in Threads : pc[t] = "idle") => mtx = 0)
  /\ \A t \in Threads : (pc[t] # "idle") ~> (pc[t] = "idle" \/ HostExhausted)
  /\ <>[]((\A t \in Threads : pc[t] = "idle" /\ calls[t] = MaxCalls)
            \/ HostExhausted)
C35_Witness ==
  /\ inner = "nil" /\ mtx = 0
  /\ \A t \in Threads : pc[t] = "idle" /\ calls[t] = MaxCalls /\ cret[t].val = 0
  /\ \E t, u \in Threads : cret[t].op = "Len" /\ cret[u].op = "Reset"

\* one growth step of the capacity
C36_Grown(c) == IF c < 256 THEN 2 * c ELSE c + c \div 4
\* the capacity after n growth steps from K
RECURSIVE C36_After(_, _)
C36_After(K, n) == IF n = 0 THEN K ELSE C36_Grown(C36_After(K, n - 1))
\* the number of growth steps from c until the capacity is at least M
RECURSIVE C36_Steps(_, _)
C36_Steps(c, M) == IF c >= M THEN 0 ELSE 1 + C36_Steps(C36_Grown(c), M)
\* what a call of growSlice with K = cap(s), N = len(s), D = len(data) must
\* satisfy, C being the capacity of the slice it returns
C36_GrowStep ==
  hret'.op = "growSlice" =>
    LET K == hret'.s.cap
        N == Len(hret'.s.data)
        D == hret'.length
        C == hret'.capacity
    IN /\ K = 0 => C = D
       /\ K > 0 =>
            LET n == C36_Steps(K, N + D)
            IN /\ C = C36_After(K, n)
               /\ C >= N + D
               /\ n > 0 => C36_After(K, n - 1) < N + D
       /\ C = K =>
            /\ sl'.s = hret'.s
            /\ ~hret'.called
            /\ buffers' = buffers /\ allocs' = allocs /\ mem' = mem
       /\ Len(sl'.s.data) = N /\ sl'.s.cap = C
\* C36: growSlice returns capacity D when K = 0, otherwise the first value at
\* least N + D in the sequence that starts at K and doubles below 256 and
\* grows by a quarter from 256 on; every step of the loop raises a capacity
\* of 1 or more, so the loop ends; and when the capacity computed equals K
\* the slice is returned as it is and the arena is not called.
C36_GrowSlice ==
  /\ [](\A c \in 1..MaxGrowCap : growLoop(c, c + 1) > c)
  /\ [][C36_GrowStep]_vars
C36_Witness ==
  /\ hret.op = "growSlice" /\ hret.called /\ arena = "monotonic"
  /\ hret.s.cap = growThreshold /\ Len(hret.s.data) = growThreshold
  /\ hret.length = growThreshold \div 4
  /\ hret.capacity = 320

\* buffer b, materialized, has no room for size bytes at the alignment
C37_NoRoom(b, size, alignment) ==
  /\ b.ptr # NilPtr
  /\ availableBytes(b) < size + alignLoop(b.ptr + b.offset, alignment)
\* what an Alloc that returns must satisfy, i being the buffer that served it
C37_AllocStep ==
  (last'.op = "Alloc" /\ ~panicked') =>
    LET i == last'.idx
        n == Len(buffers)
    IN /\ i \in 1..(n + 1)
       /\ Len(buffers') = (IF i <= n THEN n ELSE n + 1)
       /\ \A j \in 1..n :
            j < i => C37_NoRoom(buffers'[j], last'.size, last'.alignment)
       /\ \A j \in 1..n : j # i => buffers'[j].offset = buffers[j].offset
       /\ last'.pad = alignLoop(buffers'[i].ptr + oldOffset(i), last'.alignment)
       /\ buffers'[i].offset = oldOffset(i) + last'.size + last'.pad
       /\ buffers'[i].offset <= buffers'[i].size
C38_Pad == alignLoop(len(buffers), last'.alignment)
\* the buffer a step appended
C38_New == buffers'[Len(buffers')]
\* as stated: a request smaller than minBufferSize that makes Alloc create a
\* buffer gets one of exactly minBufferSize bytes, and Cap grows by that
C38_SmallRequestStep ==
  (Len(buffers') > Len(buffers) /\ last'.size < minBufferSize) =>
    /\ C38_New.size = minBufferSize
    /\ Cap(buffers') = Cap(buffers) + minBufferSize
C38_SmallRequest == [][C38_SmallRequestStep]_vars
\* what a step that appends a buffer must satisfy
C38_NewBufferStep ==
  Len(buffers') > Len(buffers) =>
    /\ last'.op = "Alloc"
    /\ Len(buffers') = Len(buffers) + 1
    /\ C38_New.size = Max(minBufferSize, last'.size + C38_Pad)
    /\ Cap(buffers') = Cap(buffers) + C38_New.size
    /\ last'.size + C38_Pad <= minBufferSize =>
         (C38_New.size = minBufferSize /\ Cap(buffers') = Cap(buffers) + minBufferSize)
\* C38: a buffer created by Alloc has size max(minBufferSize, size + pad),
\* pad rounding the arena's current Len up to a multiple of the alignment,
\* and Cap grows by that size; the buffer has exactly minBufferSize bytes
\* when size + pad is at most minBufferSize.
C38_NewBufferSize == [][C38_NewBufferStep]_vars
C38_Witness ==
  /\ last.op = "Alloc" /\ last.grew /\ ~panicked
  /\ last.size < minBufferSize
  /\ buffers[Len(buffers)].size > minBufferSize

\* every buffer's offset is within its size
C39_OffsetInRange ==
  /\ \A i \in 1..Len(buffers) :
       0 <= buffers[i].offset /\ buffers[i].offset <= buffers[i].size
  /\ Cap(buffers) >= len(buffers)
\* what every step must leave of the buffers
C39_BufferStep ==
  /\ Len(buffers') >= Len(buffers)
  /\ Cap(buffers') >= Cap(buffers)
  /\ \A i \in 1..Len(buffers) :
       /\ buffers'[i].size = buffers[i].size
       /\ (buffers[i].ptr # NilPtr /\ last'.op # "Release") =>
            buffers'[i].ptr = buffers[i].ptr
\* C39: in every reachable state each buffer has 0 <= offset <= size, so
\* Cap >= Len; no step removes or reorders buffers or changes a buffer's
\* size, Cap never decreases, and the base address of a materialized buffer
\* changes only in Release.
C39_BufferInvariants == []C39_OffsetInRange /\ [][C39_BufferStep]_vars
C39_Witness ==
  /\ last.op = "Alloc" /\ ~panicked /\ ~last.grew
  /\ Len(buffers) = 2 /\ Len(allocs) = 1
  /\ \A i \in 1..2 : buffers[i].ptr # NilPtr /\ buffers[i].size > 0
  /\ buffers[2].offset = buffers[2].size /\ buffers[1].offset = 0

\* the outcomes of serving again, from request k on, the requests of allocs
\* on the buffers bufs: the buffers at the end and the addresses returned
RECURSIVE C40_Replay(_, _, _, _, _)
C40_Replay(bufs, pk, m, k, ptrs) ==
  IF k > Len(allocs)
  THEN {[buffers |-> bufs, ptrs |-> ptrs, panicked |-> FALSE]}
  ELSE UNION { IF r.panicked
               THEN {[buffers |-> r.buffers, ptrs |-> ptrs, panicked |-> TRUE]}
               ELSE C40_Replay(r.buffers, r.peak, r.mem, k + 1, Append(ptrs, r.ptr))
               : r \in Alloc(bufs, pk, minBufferSize, m, allocs[k].size,
                             allocs[k].alignment) }
\* the outcomes of Reset followed by the requests served since the arena was
\* last empty
C40_Again == C40_Replay(Reset(buffers), peak, mem, 1, <<>>)
\* C40: after Reset, serving again the Alloc requests that were served since
\* the arena was last empty returns the addresses returned the first time,
\* creates no buffer and leaves Cap as it is.
C40_ReplayAfterReset ==
  ~panicked =>
    /\ C40_Again # {}
    /\ \A o \in C40_Again :
         /\ ~o.panicked
         /\ o.ptrs = [k \in 1..Len(allocs) |-> allocs[k].ptr]
         /\ Len(o.buffers) = Len(buffers)
         /\ Cap(o.buffers) = Cap(buffers)
         /\ o.buffers = buffers
C40_Witness ==
  /\ ~panicked /\ last.op = "Alloc" /\ last.grew
  /\ Len(allocs) = 2 /\ allocs[1].idx # allocs[2].idx
  /\ allocs[1].size > 0 /\ allocs[2].pad > 0
  /\ \E i \in 1..Len(buffers) : buffers[i].offset < buffers[i].size

====
